---- MODULE Spec2Model ----
(***************************************************************************)
(* A model of the smartRAG backend: the text chunking and embedding        *)
(* engine (services/vector.ts), the router (services/ragRouter.ts), the    *)
(* strategy executors (services/strategies), the classifier client         *)
(* (services/gemini.ts) and the queryRAG resolver (graphql/resolvers.ts).  *)
(***************************************************************************)
EXTENDS Integers, Sequences, FiniteSets, TLC

VARIABLES
    fx,         \* the fixed-size chunking call in progress (VectorService.chunkText)
    em,         \* the embedding call in progress (generateChunkEmbeddings)
    ck,         \* the sentence or semantic chunking call (chunkBySentence, chunkBySemantic)
    sessions,   \* ChatSession collection: the ids of the stored sessions
    messages,   \* ChatMessage collection, in creation order
    files,      \* FileMetadata collection, in creation order
    uploads,    \* the number of FileMetadata records created so far
    caches,     \* GraphCache collection, in creation order
    rq,         \* the requests in progress, one per process
    appended,   \* per session, the latest cache write: its document and its batch
    calls,      \* the number of requests made so far
    ex,         \* the relation extraction in progress (GraphRAGStrategy.execute)
    cs,         \* the cosineSimilarity call in progress
    se,         \* the search call in progress (VectorService.search)
    ds          \* the deleteSession call in progress

vars == <<fx, em, ck, sessions, messages, files, uploads, caches, rq, appended, calls, ex, cs, se, ds>>

callVars == <<ex, cs, se, ds>>

chunkVars == <<fx, em, ck>>

ragVars == <<sessions, messages, files, uploads, caches, rq, appended, calls>>

(***************************************************************************)
(* Bounds of the model.                                                    *)
(***************************************************************************)
MaxTextLen == 3
MaxChunkSize == 3
MaxOverlap == 3
MaxChunks == 6
MaxEmbedChunks == 6
MaxFiles == 2
MaxCalls == 2
MaxQueries == 1
MaxRaceCalls == 3
MaxRows == 2
MaxDim == 2
MaxSearchChunks == 3
MaxTopK == 2
MaxProseLen == 5
MaxRawLen == 4
\* The longest header of the tables in SpecSubject.
MaxColumns == 3
\* The uploads made in SpecQuery and SpecDelete.
MaxUploads == 1

(***************************************************************************)
(* Generic helpers.                                                        *)
(***************************************************************************)
Min(a, b) == IF a < b THEN a ELSE b

Max(a, b) == IF a > b THEN a ELSE b

CeilDiv(a, b) == (a + b - 1) \div b

Reverse(list) == [i \in DOMAIN list |-> list[Len(list) + 1 - i]]

SeqsUpTo(S, n) == UNION {[1..k -> S] : k \in 0..n}

\* String.prototype.slice / Array.prototype.slice(start, end): negative
\* indices count from the end, both are clamped to [0, length].
JsSlice(s, start, end) ==
    LET len == Len(s)
        from == IF start < 0 THEN Max(len + start, 0) ELSE Min(start, len)
        to == IF end < 0 THEN Max(len + end, 0) ELSE Min(end, len)
    IN  IF from >= to THEN <<>> ELSE SubSeq(s, from + 1, to)

(***************************************************************************)
(* Text is a sequence of characters.                                       *)
(***************************************************************************)
Alphabet == {"a", "b", " "}

IsSpace(c) == c \in {" ", "\n", "\t"}

\* text.replace(/\s+/g, " "): every maximal run of whitespace becomes one blank.
RECURSIVE CollapseWs(_)
CollapseWs(t) ==
    IF t = <<>> THEN <<>>
    ELSE IF IsSpace(Head(t))
         THEN IF Len(t) > 1 /\ IsSpace(t[2])
              THEN CollapseWs(Tail(t))
              ELSE <<" ">> \o CollapseWs(Tail(t))
         ELSE <<Head(t)>> \o CollapseWs(Tail(t))

\* String.prototype.trim
RECURSIVE TrimStart(_)
TrimStart(t) ==
    IF t # <<>> /\ IsSpace(Head(t)) THEN TrimStart(Tail(t)) ELSE t

RECURSIVE TrimEnd(_)
TrimEnd(t) ==
    IF t # <<>> /\ IsSpace(t[Len(t)]) THEN TrimEnd(SubSeq(t, 1, Len(t) - 1)) ELSE t

Trim(t) == TrimEnd(TrimStart(t))

CleanText(text) == Trim(CollapseWs(text))

(***************************************************************************)
(* VectorService.chunkByFixed, one loop iteration per step.                *)
(* fx.pc: "idle" before the call, "loop" at the while test, "done" after   *)
(* the return, "exhausted" when the chunk list can no longer grow.         *)
(* fx.via: who called chunkText, "chunkText" for a direct call and         *)
(* "processDocument" for the pipeline.                                     *)
(***************************************************************************)
FixedEnd(start, maxSize, len) == Min(start + maxSize, len)

FixedNextStart(end, overlap) == end - overlap

FixedIdle ==
    [pc |-> "idle", via |-> "none", text |-> <<>>, maxSize |-> 1, overlap |-> 0,
     start |-> 0, chunks |-> <<>>]

NoChunk == [id |-> "none"]

EmbedIdle ==
    [pc |-> "idle", strategy |-> "none", chunks |-> <<>>, i |-> 0, results |-> <<>>,
     call |-> <<>>, attempts |-> <<>>, batchResults |-> <<>>]


\* chunkText with strategy "fixed" up to the while test of chunkByFixed: a
\* blank text is answered with [] at once.
FixedCall(via, text, maxSize, overlap) ==
    LET cleanText == CleanText(text)
    IN  [pc |-> IF cleanText = <<>> THEN "done" ELSE "loop", via |-> via,
         text |-> cleanText, maxSize |-> maxSize, overlap |-> overlap,
         start |-> 0, chunks |-> <<>>]

\* chunkText(text, {maxChunkSize, overlap, strategy: "fixed"})
ChunkTextFixed(text, maxSize, overlap) ==
    /\ fx.pc = "idle"
    /\ fx' = FixedCall("chunkText", text, maxSize, overlap)
    /\ UNCHANGED <<em, ck, ragVars, callVars>>

\* VectorService.detectStrategy
SentenceMinLen == 2000

RECURSIVE IncludesDotSpace(_)
IncludesDotSpace(t) ==
    IF Len(t) < 2 THEN FALSE
    ELSE (t[1] = "." /\ t[2] = " ") \/ IncludesDotSpace(Tail(t))

DetectStrategy(content, fileType) ==
    IF fileType \in {"csv", "json"} THEN "fixed"
    ELSE IF Len(content) > SentenceMinLen /\ IncludesDotSpace(content) THEN "sentence"
    ELSE "semantic"

\* The chunking options processDocument passes to chunkText.
CsvChunkSize == 500
DefaultChunkSize == 1000
CsvOverlap == 50
DefaultOverlap == 100

DocChunkSize(fileType) == IF fileType = "csv" THEN CsvChunkSize ELSE DefaultChunkSize

DocOverlap(fileType) == IF fileType = "csv" THEN CsvOverlap ELSE DefaultOverlap


\* One pass through the body of the while loop of chunkByFixed.
FixedStep ==
    /\ fx.pc = "loop"
    /\ Len(fx.chunks) < MaxChunks
    /\ LET len == Len(fx.text)
           end == FixedEnd(fx.start, fx.maxSize, len)
           next == FixedNextStart(end, fx.overlap)
       IN  fx' = [fx EXCEPT
                    !.chunks = Append(@, JsSlice(fx.text, fx.start, end)),
                    !.start = next,
                    !.pc = IF next >= len THEN "done" ELSE "loop"]
    /\ UNCHANGED <<em, ck, ragVars, callVars>>

\* The list of chunks cannot grow without end: the push that no longer fits
\* aborts the call.
FixedExhaust ==
    /\ fx.pc = "loop"
    /\ Len(fx.chunks) >= MaxChunks
    /\ fx' = [fx EXCEPT !.pc = "exhausted"]
    /\ UNCHANGED <<em, ck, ragVars, callVars>>

(***************************************************************************)
(* VectorService.chunkBySentence and chunkBySemantic.                      *)
(***************************************************************************)
IsEnder(c) == c \in {".", "!", "?"}

IsHeadChar(c) == c \in {"A", "#"}

IsNewline(c) == c = "\n"

\* The length of the run of whitespace (or of newlines) that starts at i.
RECURSIVE RunFrom(_, _, _)
RunFrom(t, i, newlines) ==
    IF i <= Len(t) /\ (IF newlines THEN IsNewline(t[i]) ELSE IsSpace(t[i]))
    THEN 1 + RunFrom(t, i + 1, newlines)
    ELSE 0

\* /(?<=[.!?])\s+/g: a run of whitespace right after a sentence ender.
SentenceSep(t, i) ==
    IF i > 1 /\ IsEnder(t[i - 1]) THEN RunFrom(t, i, FALSE) ELSE 0

\* /\n\n+|\n(?=[A-Z#])/g: two or more newlines, or one newline before a
\* capital letter or a hash sign.
ParagraphSep(t, i) ==
    LET run == RunFrom(t, i, TRUE)
    IN  IF run >= 2 THEN run
        ELSE IF run = 1 /\ i < Len(t) /\ IsHeadChar(t[i + 1]) THEN 1
        ELSE 0

\* The length of the separator of the given kind that starts at position i
\* of t, or 0.
SepLen(kind, t, i) ==
    CASE kind = "sentence" -> SentenceSep(t, i)
      [] kind = "paragraph" -> ParagraphSep(t, i)
      [] OTHER -> IF t[i] = " " THEN 1 ELSE 0

\* String.prototype.split: the pieces between the separators.
RECURSIVE SplitFrom(_, _, _, _)
SplitFrom(t, i, piece, kind) ==
    IF i > Len(t) THEN <<piece>>
    ELSE LET n == SepLen(kind, t, i)
         IN  IF n > 0
             THEN <<piece>> \o SplitFrom(t, i + n, <<>>, kind)
             ELSE SplitFrom(t, i + 1, Append(piece, t[i]), kind)

\* text.split(sep).filter(s => s.trim())
Units(text, kind) ==
    SelectSeq(SplitFrom(text, 1, <<>>, kind), LAMBDA u : Trim(u) # <<>>)

\* currentChunk.split(" ")
Words(chunk) == SplitFrom(chunk, 1, <<>>, "blank")

RECURSIVE JoinText(_, _)
JoinText(pieces, sep) ==
    IF pieces = <<>> THEN <<>>
    ELSE IF Len(pieces) = 1 THEN pieces[1]
    ELSE pieces[1] \o sep \o JoinText(Tail(pieces), sep)

\* words.slice(-Math.ceil(words.length * 0.1)).join(" "); the product is
\* exact for the word counts of the model (below 30).
OverlapBuffer(chunk) ==
    LET words == Words(chunk)
    IN  JoinText(JsSlice(words, -CeilDiv(Len(words), 10), Len(words)), <<" ">>)

\* The for loop of chunkBySentence from sentence i on, and the final push.
RECURSIVE SentenceLoop(_, _, _, _, _)
SentenceLoop(sentences, i, maxSize, currentChunk, chunks) ==
    IF i > Len(sentences)
    THEN IF Trim(currentChunk) # <<>> THEN Append(chunks, Trim(currentChunk)) ELSE chunks
    ELSE LET sentence == sentences[i]
         IN  IF Len(currentChunk) + Len(sentence) > maxSize /\ currentChunk # <<>>
             THEN SentenceLoop(sentences, i + 1, maxSize,
                               OverlapBuffer(currentChunk) \o <<" ">> \o sentence,
                               Append(chunks, Trim(currentChunk)))
             ELSE SentenceLoop(sentences, i + 1, maxSize,
                               currentChunk
                                   \o (IF currentChunk # <<>> THEN <<" ">> ELSE <<>>)
                                   \o sentence,
                               chunks)

ChunkBySentence(text, maxSize) ==
    SentenceLoop(Units(text, "sentence"), 1, maxSize, <<>>, <<>>)

\* The for loop of chunkBySemantic from paragraph i on, and the final push.
RECURSIVE SemanticLoop(_, _, _, _, _)
SemanticLoop(paragraphs, i, maxSize, currentChunk, chunks) ==
    IF i > Len(paragraphs)
    THEN IF Trim(currentChunk) # <<>> THEN Append(chunks, Trim(currentChunk)) ELSE chunks
    ELSE LET para == paragraphs[i]
         IN  IF Len(currentChunk) + Len(para) > maxSize /\ currentChunk # <<>>
             THEN SemanticLoop(paragraphs, i + 1, maxSize, para,
                               Append(chunks, Trim(currentChunk)))
             ELSE SemanticLoop(paragraphs, i + 1, maxSize,
                               currentChunk
                                   \o (IF currentChunk # <<>> THEN <<"\n", "\n">> ELSE <<>>)
                                   \o para,
                               chunks)

ChunkBySemantic(text, maxSize) ==
    SemanticLoop(Units(text, "paragraph"), 1, maxSize, <<>>, <<>>)

ChunkIdle ==
    [pc |-> "idle", via |-> "none", strategy |-> "none", raw |-> <<>>, text |-> <<>>,
     maxSize |-> 1, units |-> <<>>, chunks |-> <<>>]

\* The units and the chunks of one call of chunkBySentence or chunkBySemantic.
Chunked(via, strategy, raw, text, maxSize) ==
    [pc |-> "done", via |-> via, strategy |-> strategy, raw |-> raw, text |-> text,
     maxSize |-> maxSize,
     units |-> IF strategy = "sentence" THEN Units(text, "sentence")
               ELSE Units(text, "paragraph"),
     chunks |-> IF strategy = "sentence" THEN ChunkBySentence(text, maxSize)
                ELSE ChunkBySemantic(text, maxSize)]

\* chunkBySentence(text, maxSize, overlap) or chunkBySemantic(text, maxSize,
\* overlap), called on the service object; neither reads overlap.
ChunkByCall(strategy, text, maxSize) ==
    /\ ck.pc = "idle"
    /\ ck' = Chunked("direct", strategy, text, text, maxSize)
    /\ UNCHANGED <<fx, em, ragVars, callVars>>

\* A chunkText that passes the text on as it came, without normalising the
\* whitespace.
ChunkTextUnchecked(raw, maxSize, strategy) ==
    /\ ck.pc = "idle"
    /\ ck' = Chunked("chunkText", strategy, raw, raw, maxSize)
    /\ UNCHANGED <<fx, em, ragVars, callVars>>

\* chunkText(text, {maxChunkSize, strategy}) for the strategies "sentence"
\* and "semantic".
ChunkText(raw, maxSize, strategy) ==
    /\ ck.pc = "idle"
    /\ LET cleanText == CleanText(raw)
       IN  ck' = IF cleanText = <<>>
                 THEN [ChunkIdle EXCEPT !.pc = "done", !.via = "chunkText",
                                        !.strategy = strategy, !.raw = raw,
                                        !.maxSize = maxSize]
                 ELSE Chunked("chunkText", strategy, raw, cleanText, maxSize)
    /\ UNCHANGED <<fx, em, ragVars, callVars>>

(***************************************************************************)
(* VectorService.generateChunkEmbeddings: batches of BatchSize embedding   *)
(* calls, the calls of one batch in flight together, joined by Promise.all.*)
(* em.pc: "idle", "batch" at the for test, "await" at Promise.all, "done"  *)
(* after the return, "thrown" when the call rejected.                      *)
(* em.call[k] is the state of the embedding call of chunk k (0-based):     *)
(* "none", "pending", "ok", "fail"; em.attempts[k] counts the calls made.  *)
(***************************************************************************)
BatchSize == 5

EmbedSource == "doc"

\* The strategy a direct caller names.
EmbedStrategy == "fixed"

\* The chunk texts handed to generateChunkEmbeddings: position k of sample v.
SampleChunk(v, k) ==
    IF (k + v) % 3 = 0 THEN <<>>
    ELSE IF (k + v) % 3 = 1 THEN <<"a">> \o [j \in 1..k |-> "b"]
    ELSE <<"b", " ">> \o [j \in 1..k |-> "a"]

SampleChunks(v, n) == [k \in 1..n |-> SampleChunk(v, k - 1)]

\* The vector the embedding model answers with.
EmbeddingOf(cleanText) == <<Len(cleanText), 1>>

\* GeminiService.generateEmbedding up to its await: an empty text is answered
\* with [] at once, any other text is sent to the embedding model.
EmbeddingNeedsModel(text) == text # <<>>

GlobalIdx(i, batchIdx) == i + batchIdx

ChunkId(source, globalIdx) == source \o "-" \o ToString(globalIdx)

\* The Chunk built in the try branch.
EmbeddedChunk(content, embedding, source, globalIdx, total, strategy) ==
    [id |-> ChunkId(source, globalIdx), content |-> content, embedding |-> embedding,
     metadata |-> [source |-> source, chunkIndex |-> globalIdx, totalChunks |-> total,
                   type |-> strategy, tokens |-> CeilDiv(Len(content), 4)]]

\* The Chunk built in the catch branch: no embedding, no token estimate.
DegradedChunk(content, source, globalIdx, total, strategy) ==
    [id |-> ChunkId(source, globalIdx), content |-> content,
     metadata |-> [source |-> source, chunkIndex |-> globalIdx, totalChunks |-> total,
                   type |-> strategy]]

\* A catch block that rethrows instead of keeping the chunk.
OnEmbedFailureRethrow(st, k) == [st EXCEPT !.call[k] = "fail", !.pc = "thrown"]

\* What the catch block of the per-chunk task does with a failed call.
OnEmbedFailure(st, k) ==
    [st EXCEPT !.call[k] = "fail",
               !.batchResults[k] = DegradedChunk(st.chunks[k + 1], EmbedSource, k,
                                                 Len(st.chunks), st.strategy)]

OnEmbedSuccess(st, k, embedding) ==
    [st EXCEPT !.call[k] = "ok",
               !.batchResults[k] = EmbeddedChunk(st.chunks[k + 1], embedding, EmbedSource,
                                                 k, Len(st.chunks), st.strategy)]

\* A fan-out over every chunk not yet embedded, with no batch limit.
RemainingIndices(st) == {k \in DOMAIN st.call : k >= st.i}

BatchIndices(st) ==
    {GlobalIdx(st.i, b) : b \in 0..(Len(JsSlice(st.chunks, st.i, st.i + BatchSize)) - 1)}

\* The call of generateChunkEmbeddings before its for loop.
EmbedCall(chunks, strategy) ==
    [pc |-> "batch", strategy |-> strategy, chunks |-> chunks, i |-> 0, results |-> <<>>,
     call |-> [k \in 0..(Len(chunks) - 1) |-> "none"],
     attempts |-> [k \in 0..(Len(chunks) - 1) |-> 0],
     batchResults |-> [k \in 0..(Len(chunks) - 1) |-> NoChunk]]

\* generateChunkEmbeddings(chunks, source, strategy): entry.
GenerateChunkEmbeddings(chunks, strategy) ==
    /\ em.pc = "idle"
    /\ em' = EmbedCall(chunks, strategy)
    /\ UNCHANGED <<fx, ck, ragVars, callVars>>

\* processDocument(content, source, fileType) up to the return of chunkText:
\* detectStrategy picks the chunker, chunkText normalises the text and runs
\* it.  chunkByFixed runs its loop pass by pass (FixedStep); the sentence and
\* the semantic chunker return at once.
ProcessDocument(content, fileType) ==
    LET strategy == DetectStrategy(content, fileType)
        cleanText == CleanText(content)
    IN  /\ fx.pc = "idle"
        /\ ck.pc = "idle"
        /\ em.pc = "idle"
        /\ IF strategy = "fixed"
           THEN /\ fx' = FixedCall("processDocument", content, DocChunkSize(fileType),
                                   DocOverlap(fileType))
                /\ UNCHANGED ck
           ELSE /\ ck' = IF cleanText = <<>>
                         THEN [ChunkIdle EXCEPT !.pc = "done", !.via = "processDocument",
                                                !.strategy = strategy, !.raw = content,
                                                !.maxSize = DocChunkSize(fileType)]
                         ELSE Chunked("processDocument", strategy, content, cleanText,
                                      DocChunkSize(fileType))
                /\ UNCHANGED fx
        /\ UNCHANGED <<em, ragVars, callVars>>

\* processDocument after chunkText returned: it calls
\* generateChunkEmbeddings(chunks, source, strategy) and returns what that
\* call returns.
ProcessDocumentEmbed ==
    /\ em.pc = "idle"
    /\ \/ /\ fx.via = "processDocument"
          /\ fx.pc = "done"
          /\ em' = EmbedCall(fx.chunks, "fixed")
       \/ /\ ck.via = "processDocument"
          /\ ck.pc = "done"
          /\ em' = EmbedCall(ck.chunks, ck.strategy)
    /\ UNCHANGED <<fx, ck, ragVars, callVars>>

\* The for test and, when it passes, batch.map(async ...): every task of the
\* batch runs up to its first await, so all its embedding calls are issued.
\* A task whose text is empty gets [] without a call to the model.
EmbedIssueBatch ==
    /\ em.pc = "batch"
    /\ IF em.i < Len(em.chunks)
       THEN LET idx == BatchIndices(em)
                issued == [em EXCEPT
                    !.pc = "await",
                    !.call = [k \in DOMAIN em.call |->
                                 IF k \in idx THEN "pending" ELSE em.call[k]],
                    !.attempts = [k \in DOMAIN em.attempts |->
                                 IF k \in idx THEN em.attempts[k] + 1 ELSE em.attempts[k]]]
            IN  em' = issued
       ELSE em' = [em EXCEPT !.pc = "done"]
    /\ UNCHANGED <<fx, ck, ragVars, callVars>>

\* One pending embedding call settles: the model answers, or the call fails.
EmbedSettle(k, ok) ==
    /\ em.pc = "await"
    /\ k \in DOMAIN em.call
    /\ em.call[k] = "pending"
    /\ IF ~EmbeddingNeedsModel(em.chunks[k + 1])
       THEN ok /\ em' = OnEmbedSuccess(em, k, <<>>)
       ELSE IF ok
            THEN em' = OnEmbedSuccess(em, k, EmbeddingOf(CleanText(em.chunks[k + 1])))
            ELSE em' = OnEmbedFailure(em, k)
    /\ UNCHANGED <<fx, ck, ragVars, callVars>>

\* Promise.all resolves once every task of the batch has returned its Chunk;
\* results.push(...batchResults); i += batchSize.
EmbedJoin ==
    /\ em.pc = "await"
    /\ \A k \in BatchIndices(em) : em.call[k] \in {"ok", "fail"}
    /\ LET n == Cardinality(BatchIndices(em))
       IN  em' = [em EXCEPT
                    !.results = @ \o [b \in 1..n |-> em.batchResults[GlobalIdx(em.i, b - 1)]],
                    !.i = @ + BatchSize,
                    !.pc = "batch"]
    /\ UNCHANGED <<fx, ck, ragVars, callVars>>

(***************************************************************************)
(* Stored documents.  A FileMetadata record is what the upload handler     *)
(* saved: originalName, extractedEntities, sampleData.  The files that can *)
(* be uploaded are the ones of FileKeys; a stored file is                  *)
(* [id, sessionId, key] and its fields are read through the operators      *)
(* below.                                                                  *)
(***************************************************************************)
Sessions == {"s1", "s2"}

\* A context that carries no sessionId.
NoSession == ""

\* records.slice(0, 10) of the upload handler and the strategies' limit(10).
SampleLimit == 10
FileLimit == 10
\* extractedEntities: [...new Set(extractedEntities)].slice(0, 50)
EntityLimit == 50

FileKeys ==
    {"products.csv", "ab.csv", "bc.csv", "orders.csv", "wide.csv", "report.pdf", "notes.txt"}

Column(text) == [kind |-> "Column", text |-> text]

Value(text) == [kind |-> "Value", text |-> text]

WideColumns == <<"id">> \o [j \in 1..(EntityLimit - 1) |-> "c" \o ToString(j)]

\* f.extractedEntities: "Column: <name>" entries first, then sampled values.
ExtractedEntities(key) ==
    CASE key = "products.csv" ->
            <<Column("id"), Column("category"), Column("price"), Value("Books")>>
      [] key = "ab.csv" -> <<Column("name"), Column("group")>>
      [] key = "bc.csv" -> <<Column("name"), Column("group")>>
      [] key = "orders.csv" ->
            <<Column("customer"), Column("Order_ID"), Column("product"), Column("qty"),
              Column("status"), Value("open"), Value("paid")>>
      [] key = "wide.csv" -> [j \in 1..EntityLimit |-> Column(WideColumns[j])]
      [] OTHER -> <<>>

WideRow(i) ==
    [c \in {WideColumns[j] : j \in 1..EntityLimit} |->
        IF c = "id" THEN "r" \o ToString(i) ELSE "r" \o ToString(i) \o c]

\* f.sampleData: the JSON text of the sample rows ("rows"), text that is not
\* JSON ("text") or nothing ("empty").  A missing or empty cell is "".
SampleData(key) ==
    CASE key = "products.csv" ->
            [kind |-> "rows",
             rows |-> <<[id |-> "P1", category |-> "Books", price |-> "9.99"]>>]
      [] key = "ab.csv" -> [kind |-> "rows", rows |-> <<[name |-> "A", group |-> "B"]>>]
      [] key = "bc.csv" -> [kind |-> "rows", rows |-> <<[name |-> "B", group |-> "C"]>>]
      [] key = "orders.csv" ->
            [kind |-> "rows",
             rows |-> <<[customer |-> "Ann", Order_ID |-> "O1", product |-> "P1",
                         qty |-> "2", status |-> "open"],
                        [customer |-> "Bob", Order_ID |-> "O2", product |-> "P1",
                         qty |-> "", status |-> "paid"],
                        [customer |-> "Ann", Order_ID |-> "O3", product |-> "P2",
                         qty |-> "1", status |-> "open"]>>]
      [] key = "wide.csv" -> [kind |-> "rows", rows |-> [i \in 1..SampleLimit |-> WideRow(i)]]
      [] key = "notes.txt" -> [kind |-> "text", rows |-> <<>>]
      [] OTHER -> [kind |-> "empty", rows |-> <<>>]

\* f.extractedEntities.filter(e => e.startsWith("Column:"))
\*                    .map(e => e.replace("Column:", "").trim())
FileColumns(key) ==
    LET cols == SelectSeq(ExtractedEntities(key), LAMBDA e : e.kind = "Column")
    IN  [i \in DOMAIN cols |-> cols[i].text]

\* try { f.sampleData ? JSON.parse(f.sampleData).slice(0, limit) : [] } catch { [] }
ParseSample(key, limit) ==
    LET data == SampleData(key)
    IN  IF data.kind = "rows" THEN JsSlice(data.rows, 0, limit) ELSE <<>>

\* row[col]: undefined (here "") when the row has no such key.
Cell(row, col) == IF col \in DOMAIN row THEN row[col] ELSE ""

\* JavaScript truthiness of a cell.
Truthy(v) == v # ""

(***************************************************************************)
(* Column names as characters, for toLowerCase() and includes().           *)
(***************************************************************************)
Spelling(name) ==
    CASE name = "id" -> <<"i", "d">>
      [] name = "category" -> <<"c", "a", "t", "e", "g", "o", "r", "y">>
      [] name = "price" -> <<"p", "r", "i", "c", "e">>
      [] name = "name" -> <<"n", "a", "m", "e">>
      [] name = "group" -> <<"g", "r", "o", "u", "p">>
      [] name = "customer" -> <<"c", "u", "s", "t", "o", "m", "e", "r">>
      [] name = "Order_ID" -> <<"O", "r", "d", "e", "r", "_", "I", "D">>
      [] name = "product" -> <<"p", "r", "o", "d", "u", "c", "t">>
      [] name = "qty" -> <<"q", "t", "y">>
      [] name = "status" -> <<"s", "t", "a", "t", "u", "s">>
      [] name = "title" -> <<"t", "i", "t", "l", "e">>
      [] name = "author" -> <<"a", "u", "t", "h", "o", "r">>
      [] OTHER -> <<"c", "0">>   \* the generated columns c1, c2, ...

LowerChar(c) ==
    CASE c = "O" -> "o" [] c = "I" -> "i" [] c = "D" -> "d" [] OTHER -> c

ToLowerCase(t) == [i \in DOMAIN t |-> LowerChar(t[i])]

Includes(t, needle) ==
    \E i \in 1..(Len(t) - Len(needle) + 1) : SubSeq(t, i, i + Len(needle) - 1) = needle

\* A hint test on the name as written, without toLowerCase().
HasSubjectHintExact(c) ==
    LET lower == Spelling(c)
    IN  \/ Includes(lower, <<"i", "d">>)
        \/ Includes(lower, <<"n", "a", "m", "e">>)
        \/ Includes(lower, <<"t", "i", "t", "l", "e">>)

HasSubjectHint(c) ==
    LET lower == ToLowerCase(Spelling(c))
    IN  \/ Includes(lower, <<"i", "d">>)
        \/ Includes(lower, <<"n", "a", "m", "e">>)
        \/ Includes(lower, <<"t", "i", "t", "l", "e">>)

\* columns.find(hint) || columns[0]
SubjectCol(columns) ==
    LET hits == {i \in DOMAIN columns : HasSubjectHint(columns[i])}
    IN  IF hits = {} THEN columns[1]
        ELSE columns[CHOOSE i \in hits : \A j \in hits : i <= j]

AttributeCols(columns) ==
    LET subjectCol == SubjectCol(columns)
    IN  SelectSeq(columns, LAMBDA c : c # subjectCol)

(***************************************************************************)
(* GraphRAGStrategy.execute: row-based triple generation.                  *)
(***************************************************************************)
Entity(name, entityType) == [name |-> name, entityType |-> entityType]

Relationship(from, to, relationType) ==
    [from |-> from, to |-> to, relationType |-> relationType]

RelationLine(a, b, c) == a \o " → " \o b \o " → " \o c

RECURSIVE Flatten(_)
Flatten(seqs) == IF seqs = <<>> THEN <<>> ELSE Head(seqs) \o Flatten(Tail(seqs))

\* A row loop without the early return on a falsy subject cell.
RowTriplesUnguarded(row, subjectCol, attributeCols) ==
    LET subjectVal == Cell(row, subjectCol)
        filled == SelectSeq(attributeCols, LAMBDA c : Truthy(Cell(row, c)))
    IN  [relations |->
            [k \in DOMAIN filled |->
                RelationLine(subjectVal, filled[k], Cell(row, filled[k]))],
         relationships |->
            [k \in DOMAIN filled |->
                Relationship(subjectVal, Cell(row, filled[k]), filled[k])],
         entities |->
            <<Entity(subjectVal, subjectCol)>> \o
            [k \in DOMAIN filled |-> Entity(Cell(row, filled[k]), filled[k])]]

\* What one sample row pushes: the subject entity, then for every attribute
\* column with a truthy cell the relation line, the attribute entity and the
\* relationship.  A row whose subject cell is falsy pushes nothing.
RowTriples(row, subjectCol, attributeCols) ==
    LET subjectVal == Cell(row, subjectCol)
        filled == SelectSeq(attributeCols, LAMBDA c : Truthy(Cell(row, c)))
    IN  IF ~Truthy(subjectVal)
        THEN [relations |-> <<>>, relationships |-> <<>>, entities |-> <<>>]
        ELSE [relations |->
                [k \in DOMAIN filled |->
                    RelationLine(subjectVal, filled[k], Cell(row, filled[k]))],
              relationships |->
                [k \in DOMAIN filled |->
                    Relationship(subjectVal, Cell(row, filled[k]), filled[k])],
              entities |->
                <<Entity(subjectVal, subjectCol)>> \o
                [k \in DOMAIN filled |-> Entity(Cell(row, filled[k]), filled[k])]]

\* The fallback for a file with columns and no sample rows.
ColumnTriples(name, columns) ==
    [relations |->
        [k \in DOMAIN columns |-> RelationLine("File " \o name, "contains", columns[k])],
     relationships |->
        [k \in DOMAIN columns |-> Relationship(name, columns[k], "contains")],
     entities |->
        Flatten([k \in DOMAIN columns |->
                    <<Entity(columns[k], "column"), Entity(name, "file")>>])]

NoTriples == [relations |-> <<>>, relationships |-> <<>>, entities |-> <<>>]

\* The body of dataInfo.forEach for one file, given its columns and sample.
TableTriples(name, columns, sample) ==
    IF columns # <<>> /\ sample # <<>>
    THEN LET subjectCol == SubjectCol(columns)
             attributeCols == AttributeCols(columns)
             rows == [i \in DOMAIN sample |->
                        RowTriples(sample[i], subjectCol, attributeCols)]
         IN  [relations |-> Flatten([i \in DOMAIN rows |-> rows[i].relations]),
              relationships |-> Flatten([i \in DOMAIN rows |-> rows[i].relationships]),
              entities |-> Flatten([i \in DOMAIN rows |-> rows[i].entities])]
    ELSE IF sample = <<>> /\ columns # <<>>
    THEN ColumnTriples(name, columns)
    ELSE NoTriples

FileTriples(key) == TableTriples(key, FileColumns(key), ParseSample(key, SampleLimit))

(***************************************************************************)
(* JavaScript values that may be undefined or of the wrong type.           *)
(***************************************************************************)
JUndef == [t |-> "undefined", v |-> ""]

JNull == [t |-> "null", v |-> ""]

JStr(s) == [t |-> "string", v |-> s]

JList(l) == [t |-> "list", v |-> l]

RECURSIVE Join(_, _)
Join(l, sep) ==
    IF l = <<>> THEN ""
    ELSE IF Len(l) = 1 THEN l[1]
    ELSE l[1] \o sep \o Join(Tail(l), sep)

\* The conversion of a value to a string or to a property key.  On a parsed
\* JSON object it calls the object's toString: a property toString of the
\* object's own is no function, Object.prototype.valueOf returns the object
\* itself, and the conversion throws a TypeError.
ToPrimitiveThrows(x) == x.t = "object" /\ "toString" \in DOMAIN x.v

CannotConvert == "Cannot convert object to primitive value"

\* A value that converts, inside a template literal or as a property key.
JsToString(x) ==
    CASE x.t = "string" -> x.v
      [] x.t = "list" -> Join(x.v, ",")
      [] x.t = "null" -> "null"
      [] x.t = "object" -> "[object Object]"
      [] OTHER -> "undefined"

\* x || fallback
JsOr(x, fallback) ==
    IF x.t \in {"undefined", "null"} \/ x = JStr("") THEN fallback ELSE x

(***************************************************************************)
(* The store (MongoDB collections) and the requests in progress.           *)
(***************************************************************************)
Procs == {1, 2}

FindFiles(sessionId) ==
    LET fileQuery(f) == IF Truthy(sessionId) THEN f.sessionId = sessionId ELSE TRUE
        hits == SelectSeq(files, fileQuery)
        newestFirst == [i \in DOMAIN hits |-> hits[Len(hits) + 1 - i]]
    IN  JsSlice(newestFirst, 0, FileLimit)

FileId(f) == "f" \o ToString(f.id)

\* files.map(f => ({id: f._id.toString(), content: f.originalName, nodeType}))
SourceNodes(fs, nodeType) ==
    [i \in DOMAIN fs |-> [id |-> FileId(fs[i]), content |-> fs[i].key, nodeType |-> nodeType]]

\* The arrays the forEach over dataInfo leaves behind.
GraphTriples(fs) ==
    LET per == [i \in DOMAIN fs |-> FileTriples(fs[i].key)]
    IN  [relations |-> Flatten([i \in DOMAIN per |-> per[i].relations]),
         relationships |-> Flatten([i \in DOMAIN per |-> per[i].relationships]),
         entities |-> Flatten([i \in DOMAIN per |-> per[i].entities])]

RelationLimit == 50
EntityCap == 100
RelationshipCap == 500

\* [...new Set(relations)].slice(0, 50).length
UniqueRelationCount(relations) ==
    Min(Cardinality({relations[i] : i \in DOMAIN relations}), RelationLimit)

\* graphEntities.forEach(e => map.set(e.name, e)); Array.from(map.values()):
\* one entry per name, at the place of the name's first occurrence, holding
\* the value of its last occurrence.
MapValues(ents) ==
    LET firsts == {i \in DOMAIN ents : \A j \in 1..(i - 1) : ents[j].name # ents[i].name}
        isFirst == [i \in DOMAIN ents |-> i \in firsts]
        order == SelectSeq([i \in DOMAIN ents |-> i], LAMBDA i : isFirst[i])
        lastOf(i) == CHOOSE j \in i..Len(ents) :
                        /\ ents[j].name = ents[i].name
                        /\ \A k \in (j + 1)..Len(ents) : ents[k].name # ents[i].name
    IN  [k \in DOMAIN order |-> ents[lastOf(order[k])]]

UniqueEntities(ents) == JsSlice(MapValues(ents), 0, EntityCap)

\* A merge that appends every new entity, known name or not.
MergedEntitiesUnfiltered(existing, uniqueEntities) == existing \o uniqueEntities

\* The entities and relationships written when a cache already exists.
MergedEntities(existing, uniqueEntities) ==
    LET existingNames == {existing[i].name : i \in DOMAIN existing}
    IN  existing \o SelectSeq(uniqueEntities, LAMBDA e : e.name \notin existingNames)

MergedRelationships(existing, graphRelationships) ==
    JsSlice(existing \o graphRelationships, -RelationshipCap, Len(existing) + Len(graphRelationships))

\* The relationships written when the cache is created.
CreatedRelationships(graphRelationships) == JsSlice(graphRelationships, 0, RelationshipCap)

\* GraphCache.findOne({sessionId}): the index of the first document of the
\* session, 0 when there is none.
FindCache(sessionId) ==
    LET hits == {i \in DOMAIN caches : caches[i].sessionId = sessionId}
    IN  IF hits = {} THEN 0 ELSE CHOOSE i \in hits : \A j \in hits : i <= j

NoDoc == [at |-> 0, entities |-> <<>>, relationships |-> <<>>]

\* No cache write has been made for the session.
NoWrite == [at |-> 0, relationships |-> <<>>]

\* new mongoose.Types.ObjectId(id) throws on a string that is no object id.
InvalidIds == {"not-an-id"}

ValidObjectId(id) == id \notin InvalidIds

(***************************************************************************)
(* Strategy results.                                                       *)
(***************************************************************************)
GraphNoData ==
    [answer |-> "No data uploaded yet. Please upload files to analyze relations.",
     sourceNodes |-> <<>>, reasoningTrace |-> "GraphRAG: No files found",
     executionPlan |-> JUndef]

VectorNoData ==
    [answer |-> "No documents uploaded. Please upload files first.",
     sourceNodes |-> <<>>, reasoningTrace |-> "VectorRAG: No files",
     executionPlan |-> JUndef]

GraphResult(answer, fs) ==
    [answer |-> answer, sourceNodes |-> SourceNodes(fs, "File"),
     reasoningTrace |->
        "GraphRAG: Analyzed "
            \o ToString(UniqueRelationCount(GraphTriples(fs).relations))
            \o " relations from " \o ToString(Len(fs)) \o " file(s).",
     executionPlan |-> JUndef]

VectorResult(answer, fs) ==
    [answer |-> answer, sourceNodes |-> SourceNodes(fs, "Document"),
     reasoningTrace |-> "VectorRAG: Analyzed " \o ToString(Len(fs)) \o " file(s)",
     executionPlan |-> JUndef]

DefaultPlan == JList(<<"Analyze", "Execute", "Answer">>)

\* const plan = context.plan || [...]
AgenticPlan(ctx) == JsOr(ctx.plan, DefaultPlan)

AgenticResult(answer, fs, plan) ==
    [answer |-> answer, sourceNodes |-> SourceNodes(fs, "File"),
     reasoningTrace |-> "Agentic: " \o Join(plan.v, " → "),
     executionPlan |-> plan]

\* The texts the language model answers a generation call with.
LlmAnswers == {"<generated answer>"}

(***************************************************************************)
(* The router's strategy table and its result.                             *)
(***************************************************************************)
\* The name under which the router's table holds an executor.
TableNames == {"GraphRAG", "Advanced", "Agentic", "MultiModal"}

\* The keys a plain object inherits from Object.prototype: their values are
\* truthy and are no executors.
InheritedKeys ==
    {"constructor", "toString", "toLocaleString", "valueOf", "hasOwnProperty",
     "isPrototypeOf", "propertyIsEnumerable", "__proto__", "__defineGetter__",
     "__defineSetter__", "__lookupGetter__", "__lookupSetter__"}

\* this.strategies[strategyKey] || this.strategies.Advanced: the value is
\* converted to a property key, the key is looked up in the table and,
\* through it, in Object.prototype.
StrategyFor(name) ==
    LET key == JsToString(name)
    IN  IF key = "GraphRAG" THEN "Graph"
        ELSE IF key = "Agentic" THEN "Agentic"
        ELSE IF key = "Advanced" \/ key = "MultiModal" THEN "Vector"
        ELSE IF key \in InheritedKeys THEN "Inherited"
        ELSE "Vector"

RouterTrace(decision, result) ==
    "[ROUTER] Decision: " \o JsToString(decision.strategy) \o " because \""
        \o JsToString(decision.reasoning) \o "\"\n" \o result.reasoningTrace

RouterStrategyUsed(decision) == decision.strategy

\* {...result, strategyUsed, reasoningTrace, executionPlan: decision.plan}
RouterResult(decision, result) ==
    [answer |-> result.answer, sourceNodes |-> result.sourceNodes,
     strategyUsed |-> RouterStrategyUsed(decision),
     reasoningTrace |-> RouterTrace(decision, result),
     executionPlan |-> decision.plan]

NoResult ==
    [answer |-> "", sourceNodes |-> <<>>, strategyUsed |-> JUndef,
     reasoningTrace |-> "", executionPlan |-> JUndef]

NoDecision == [strategy |-> JUndef, reasoning |-> JUndef, plan |-> JUndef]

\* A strategy result seen by a direct caller of execute.
DirectResult(result) ==
    [answer |-> result.answer, sourceNodes |-> result.sourceNodes,
     strategyUsed |-> JUndef, reasoningTrace |-> result.reasoningTrace,
     executionPlan |-> result.executionPlan]

ReqIdle ==
    [pc |-> "idle", caller |-> "none", sessionId |-> NoSession, query |-> "",
     ctx |-> [sessionId |-> NoSession, plan |-> JUndef], decision |-> NoDecision,
     impl |-> "none", fs |-> <<>>, answer |-> "", existing |-> NoDoc,
     result |-> NoResult, outcome |-> "none", error |-> "", escaped |-> "",
     llm |-> <<>>, stored |-> "none", reply |-> [kind |-> "none", value |-> JUndef]]

\* The strategy returned `result`: to the router, which builds its own result
\* and returns it to queryRAG, or to the direct caller.  The router's template
\* literal converts decision.strategy and decision.reasoning; when one of
\* them does not convert, routeAndExecute rejects and queryRAG catches it.
Returned(r, result) ==
    IF r.caller = "query"
    THEN IF ToPrimitiveThrows(r.decision.strategy) \/ ToPrimitiveThrows(r.decision.reasoning)
         THEN [r EXCEPT !.pc = "q_fallback", !.error = CannotConvert]
         ELSE [r EXCEPT !.pc = "q_saveAssistant",
                        !.result = RouterResult(r.decision, result)]
    ELSE [r EXCEPT !.pc = "done", !.outcome = "returned", !.result = DirectResult(result)]

\* The strategy (or the router) threw: queryRAG catches it, a direct caller
\* sees the rejection.
Thrown(r, message) ==
    IF r.caller = "query"
    THEN [r EXCEPT !.pc = "q_fallback", !.error = message]
    ELSE [r EXCEPT !.pc = "done", !.outcome = "thrown", !.error = message]

(***************************************************************************)
(* Environment: the upload handler stores a FileMetadata record.           *)
(***************************************************************************)
UploadFile(s, key) ==
    /\ uploads < MaxFiles
    /\ files' = Append(files, [id |-> uploads + 1, sessionId |-> s, key |-> key])
    /\ uploads' = uploads + 1
    /\ UNCHANGED <<chunkVars, callVars, sessions, messages, caches, rq, appended, calls>>

\* app.delete("/files/:id"): FileMetadata.findByIdAndDelete(id) removes the
\* record with that id.  A failed call and an id that names no record leave
\* the store as it is.
FileIds == 1..MaxFiles

DeleteFile(id) ==
    /\ \E i \in DOMAIN files : files[i].id = id
    /\ files' = SelectSeq(files, LAMBDA f : f.id # id)
    /\ UNCHANGED <<chunkVars, callVars, sessions, messages, uploads, caches, rq, appended,
                   calls>>

\* The ids the store gives to the sessions it creates itself.
GeneratedIds == {"g1"}

\* Mutation.createSession: await ChatSession.create({title}) stores a session
\* under a new id.  A failed call leaves the store as it is.
CreateSession(id) ==
    /\ id \in GeneratedIds \ sessions
    /\ sessions' = sessions \cup {id}
    /\ UNCHANGED <<chunkVars, callVars, messages, files, uploads, caches, rq, appended,
                   calls>>

(***************************************************************************)
(* Strategy executors.  Every await is a step; `ok` says whether the       *)
(* awaited call succeeded.                                                 *)
(***************************************************************************)
SetReq(p, r) == rq' = [rq EXCEPT ![p] = r]

\* IRAGStrategy.execute(query, context), called directly.
Execute(p, impl, ctx) ==
    /\ rq[p].pc = "idle"
    /\ SetReq(p, [ReqIdle EXCEPT !.pc = "s_find", !.caller = "direct", !.impl = impl,
                                 !.ctx = ctx, !.query = "q"])
    /\ calls' = calls + 1
    /\ UNCHANGED <<chunkVars, callVars, sessions, messages, files, uploads, caches, appended>>

\* An executor without the check for an empty list of files.
AfterFindUnchecked(r, fs) == [r EXCEPT !.pc = "s_synth", !.fs = fs]

\* What the executor does once FileMetadata.find(...) has answered.
AfterFind(r, fs) ==
    IF r.impl = "Graph" /\ fs = <<>> THEN Returned(r, GraphNoData)
    ELSE IF r.impl = "Vector" /\ fs = <<>> THEN Returned(r, VectorNoData)
    ELSE [r EXCEPT !.pc = "s_synth", !.fs = fs]

\* await FileMetadata.find(fileQuery).sort({createdAt: -1}).limit(10)
StrategyFind(p, ok) ==
    /\ rq[p].pc = "s_find"
    /\ SetReq(p, IF ok THEN AfterFind(rq[p], FindFiles(rq[p].ctx.sessionId))
                 ELSE Thrown(rq[p], "find failed"))
    /\ UNCHANGED <<chunkVars, callVars, sessions, messages, files, uploads, caches, appended,
                   calls>>

\* A store block that is entered whatever the extraction yielded.
StoresGraphAnyBatch(r) ==
    /\ Truthy(r.ctx.sessionId)
    /\ ValidObjectId(r.ctx.sessionId)

\* Whether the Graph executor goes on to store graph data after synthesis.
StoresGraph(r) ==
    /\ Truthy(r.ctx.sessionId)
    /\ GraphTriples(r.fs).relationships # <<>>
    /\ ValidObjectId(r.ctx.sessionId)

\* What the executor does once GeminiService.generateFast has answered.
AfterSynthesis(r, answer) ==
    CASE r.impl = "Graph" ->
            IF StoresGraph(r) THEN [r EXCEPT !.pc = "g_findOne", !.answer = answer]
            ELSE Returned(r, GraphResult(answer, r.fs))
      [] r.impl = "Agentic" ->
            IF AgenticPlan(r.ctx).t = "list"
            THEN Returned(r, AgenticResult(answer, r.fs, AgenticPlan(r.ctx)))
            ELSE Thrown(r, "plan.join is not a function")
      [] OTHER -> Returned(r, VectorResult(answer, r.fs))

\* await GeminiService.generateFast(prompt, systemPrompt)
StrategySynthesis(p, ok, answer) ==
    /\ rq[p].pc = "s_synth"
    /\ LET r == [rq[p] EXCEPT !.llm = Append(@, "synthesis")]
       IN  SetReq(p, IF ok THEN AfterSynthesis(r, answer)
                     ELSE Thrown(r, "generateFast failed"))
    /\ UNCHANGED <<chunkVars, callVars, sessions, messages, files, uploads, caches, appended,
                   calls>>

\* A catch block that lets the storage error leave execute.
OnStoreFailureRethrow(r) == Thrown(r, "Graph storage error")

\* catch (e) { console.warn("Graph storage error:", e) }, then the return.
OnStoreFailure(r) ==
    Returned([r EXCEPT !.stored = "failed"], GraphResult(r.answer, r.fs))

\* await GraphCache.findOne({sessionId}); a failure is caught and logged.
GraphFindOne(p, ok) ==
    /\ rq[p].pc = "g_findOne"
    /\ LET at == FindCache(rq[p].ctx.sessionId)
           doc == IF at = 0 THEN NoDoc
                  ELSE [at |-> at, entities |-> caches[at].entities,
                        relationships |-> caches[at].relationships]
       IN  SetReq(p, IF ok THEN [rq[p] EXCEPT !.pc = "g_write", !.existing = doc]
                     ELSE OnStoreFailure(rq[p]))
    /\ UNCHANGED <<chunkVars, callVars, sessions, messages, files, uploads, caches, appended,
                   calls>>

\* A save that appends the batch to what the store holds at the moment of
\* the write (an atomic push) instead of setting the fields computed from the
\* snapshot.
SavedDocPushed(sessionId, existing, triples) ==
    LET doc == caches[existing.at]
    IN  [sessionId |-> sessionId,
         entities |-> MergedEntities(doc.entities, UniqueEntities(triples.entities)),
         relationships |-> MergedRelationships(doc.relationships, triples.relationships)]

\* The document existing.save() writes: the fields computed from the snapshot
\* findOne returned, whatever the store holds by now.
SavedDoc(sessionId, existing, triples) ==
    [sessionId |-> sessionId,
     entities |-> MergedEntities(existing.entities, UniqueEntities(triples.entities)),
     relationships |-> MergedRelationships(existing.relationships, triples.relationships)]

\* The document GraphCache.create(...) writes.
CreatedDoc(sessionId, triples) ==
    [sessionId |-> sessionId,
     entities |-> UniqueEntities(triples.entities),
     relationships |-> CreatedRelationships(triples.relationships)]

\* await existing.save() or await GraphCache.create(...); a failure is caught
\* and logged.  Then the executor returns its result.
GraphWrite(p, ok) ==
    /\ rq[p].pc = "g_write"
    /\ LET r == rq[p]
           s == r.ctx.sessionId
           triples == GraphTriples(r.fs)
       IN  /\ IF ~ok THEN UNCHANGED <<caches, appended, calls>>
              ELSE /\ appended' = [appended EXCEPT ![s] =
                            [at |-> IF r.existing.at # 0 THEN r.existing.at
                                    ELSE Len(caches) + 1,
                             relationships |-> triples.relationships]]
                   /\ IF r.existing.at # 0
                      THEN caches' = [caches EXCEPT
                                        ![r.existing.at] = SavedDoc(s, r.existing, triples)]
                      ELSE caches' = Append(caches, CreatedDoc(s, triples))
           /\ SetReq(p, IF ~ok THEN OnStoreFailure(r)
                         ELSE Returned([r EXCEPT !.stored = IF r.existing.at # 0
                                                            THEN "saved" ELSE "created"],
                                       GraphResult(r.answer, r.fs)))
    /\ UNCHANGED <<chunkVars, callVars, sessions, messages, files, uploads, calls>>

\* The caller has taken the result; the process is free for the next call.
Finish(p) ==
    /\ rq[p].pc = "done"
    /\ SetReq(p, ReqIdle)
    /\ UNCHANGED <<chunkVars, callVars, sessions, messages, files, uploads, caches, appended,
                   calls>>

(***************************************************************************)
(* The classifier: GeminiService.routeQuery -> analyzeComplex.             *)
(* A reply is a failed call ("error"), a text that JSON.parse rejects      *)
(* ("text"), or a parsed JSON value ("json").                              *)
(***************************************************************************)
JObj(d) == [t |-> "object", v |-> d]

Decision(strategy, reasoning, plan) ==
    JObj([strategy |-> strategy, reasoning |-> reasoning, plan |-> plan])

SomePlan == JList(<<"Step 1", "Step 2">>)

Because == JStr("fits the query")

ClassifierReplies ==
    {[kind |-> "error", value |-> JUndef],
     [kind |-> "text", value |-> JUndef],
     [kind |-> "json", value |-> JNull],
     [kind |-> "json", value |-> JList(<<>>)]}
    \cup {[kind |-> "json", value |-> Decision(JStr(n), Because, SomePlan)] :
            n \in TableNames \cup {"Hybrid", "constructor"}}
    \cup {[kind |-> "json", value |-> d] :
            d \in {Decision(JUndef, Because, SomePlan),
                   Decision(JList(<<"GraphRAG">>), JObj([a |-> "b"]), SomePlan),
                   Decision(JObj([toString |-> "x"]), Because, SomePlan),
                   Decision(JStr("GraphRAG"), JObj([toString |-> "x"]), SomePlan),
                   Decision(JStr("GraphRAG"), JUndef, JUndef),
                   Decision(JStr("Agentic"), Because, JUndef),
                   Decision(JStr("Agentic"), Because, JStr("Step 1")),
                   Decision(JStr("Agentic"), Because, JList(<<>>))}}

\* analyzeComplex: the call throws, JSON.parse throws, or the value is returned.
AnalyzeThrows(reply) == reply.kind \in {"error", "text"}

\* decision.<field>: undefined on a value that has no such property.
Prop(x, field) == IF x.t = "object" THEN x.v[field] ELSE JUndef

DecisionOf(x) ==
    [strategy |-> Prop(x, "strategy"), reasoning |-> Prop(x, "reasoning"),
     plan |-> Prop(x, "plan")]

\* A router that asks the classifier again when the call or the parse failed.
AfterClassificationRetry(r, reply) ==
    IF AnalyzeThrows(reply) THEN [r EXCEPT !.pc = "r_classify"]
    ELSE IF reply.value.t = "null" THEN Thrown(r, "Cannot read properties of null")
    ELSE LET decision == DecisionOf(reply.value)
         IN  IF ToPrimitiveThrows(decision.strategy)
             THEN Thrown([r EXCEPT !.decision = decision], CannotConvert)
             ELSE LET impl == StrategyFor(decision.strategy)
                      called == [r EXCEPT !.decision = decision, !.impl = impl,
                                          !.ctx = [sessionId |-> r.sessionId,
                                                   plan |-> decision.plan]]
                  IN  IF impl = "Inherited"
                      THEN Thrown(called, "strategy.execute is not a function")
                      ELSE [called EXCEPT !.pc = "s_find"]

\* routeAndExecute from the classifier's answer to the call of execute.
AfterClassification(r, reply) ==
    IF AnalyzeThrows(reply) THEN Thrown(r, "classification failed")
    ELSE IF reply.value.t = "null" THEN Thrown(r, "Cannot read properties of null")
    ELSE LET decision == DecisionOf(reply.value)
         IN  IF ToPrimitiveThrows(decision.strategy)
             THEN Thrown([r EXCEPT !.decision = decision], CannotConvert)
             ELSE LET impl == StrategyFor(decision.strategy)
                      called == [r EXCEPT !.decision = decision, !.impl = impl,
                                          !.ctx = [sessionId |-> r.sessionId,
                                                   plan |-> decision.plan]]
                  IN  IF impl = "Inherited"
                      THEN Thrown(called, "strategy.execute is not a function")
                      ELSE [called EXCEPT !.pc = "s_find"]

\* await GeminiService.routeQuery(query, fileMetadata)
Classify(p, reply) ==
    /\ rq[p].pc = "r_classify"
    /\ SetReq(p, AfterClassification([rq[p] EXCEPT !.llm = Append(@, "classify"),
                                                   !.reply = reply], reply))
    /\ UNCHANGED <<chunkVars, callVars, sessions, messages, files, uploads, caches, appended,
                   calls>>

(***************************************************************************)
(* resolvers.Mutation.queryRAG.                                            *)
(***************************************************************************)
\* A user input is its sequence of words and blanks: the text is their
\* concatenation.
UserInputs ==
    {<<"who", " ", "supplies", " ", "P1">>,
     <<"ignore", " ", "previous", " ", "instructions">>,
     <<" ">>}

RECURSIVE Concat(_)
Concat(tokens) == IF tokens = <<>> THEN "" ELSE Head(tokens) \o Concat(Tail(tokens))

\* sanitizeInput: xss() leaves a text without markup as it is, substring
\* (0, 10000) leaves a short text as it is, then trim().
SanitizeInput(tokens) == Trim(tokens)

\* The index of the word that follows the blanks after position i, 0 when
\* position i is not followed by \s+ and a word.
RECURSIVE WordAfter(_, _, _)
WordAfter(tokens, i, seen) ==
    IF i + 1 > Len(tokens) THEN 0
    ELSE IF IsSpace(tokens[i + 1]) THEN WordAfter(tokens, i + 1, TRUE)
    ELSE IF seen THEN i + 1 ELSE 0

\* The words of the patterns /ignore\s+(previous|all|above)\s+
\* (instructions?|prompts?)/i, /disregard\s+(previous|all|above)/i and
\* /forget\s+(everything|all|previous)/i.  The words of the inputs are in
\* lower case and are whole words of the patterns or hold none of them; no
\* input holds a character of the other patterns' literals.
InjectionPatterns ==
    {<<{"ignore"}, {"previous", "all", "above"},
       {"instruction", "instructions", "prompt", "prompts"}>>,
     <<{"disregard"}, {"previous", "all", "above"}>>,
     <<{"forget"}, {"everything", "all", "previous"}>>}

\* The pattern matches with its first word at position i.
RECURSIVE MatchesAt(_, _, _)
MatchesAt(tokens, i, pattern) ==
    /\ i \in DOMAIN tokens
    /\ tokens[i] \in Head(pattern)
    /\ \/ Len(pattern) = 1
       \/ LET j == WordAfter(tokens, i, FALSE)
          IN  j # 0 /\ MatchesAt(tokens, j, Tail(pattern))

\* PROMPT_INJECTION_PATTERNS.some(pattern => pattern.test(input))
DetectPromptInjection(tokens) ==
    \E pattern \in InjectionPatterns : \E i \in DOMAIN tokens : MatchesAt(tokens, i, pattern)

\* sanitizeUserQuery: a query with a blocked pattern is unsafe.  The limits
\* of three newlines and 5000 characters leave a short one-line text as it
\* is.
SanitizeUserQuery(input) ==
    LET sanitized == SanitizeInput(input)
    IN  IF DetectPromptInjection(sanitized) THEN [safe |-> FALSE, sanitized |-> ""]
        ELSE [safe |-> TRUE, sanitized |-> Concat(sanitized)]

\* !sanitized || sanitized.trim().length === 0
Blank(text) == text \in {"", " "}

BlockedResult ==
    [answer |-> "Your query could not be processed. Please rephrase your question.",
     sourceNodes |-> <<>>, strategyUsed |-> JStr("Blocked"),
     reasoningTrace |-> "Query blocked by security filter", executionPlan |-> JList(<<>>)]

EmptyResult ==
    [answer |-> "Please provide a valid question.",
     sourceNodes |-> <<>>, strategyUsed |-> JStr("Error"),
     reasoningTrace |-> "Empty query", executionPlan |-> JList(<<>>)]

\* A fallback result that carries a routed strategy name.
DirectAnswer(answer) ==
    [answer |-> answer, sourceNodes |-> <<>>, strategyUsed |-> JStr("Direct"),
     reasoningTrace |-> "Used fallback direct generation due to routing error.",
     executionPlan |-> JList(<<>>)]

ErrorMessage ==
    "I apologize, but I'm having trouble processing your request right now. Please try again later."

ErrorAnswer(error) ==
    [answer |-> ErrorMessage, sourceNodes |-> <<>>, strategyUsed |-> JStr("Error"),
     reasoningTrace |-> "Error: " \o error, executionPlan |-> JList(<<>>)]

\* queryRAG returned `result`.
Answered(r, result) == [r EXCEPT !.pc = "done", !.outcome = "returned", !.result = result]

\* An exception left queryRAG: r.escaped is its message, r.error stays the
\* error the catch block of queryRAG caught, if it caught one.
Escaped(r, message) == [r EXCEPT !.pc = "done", !.outcome = "thrown", !.escaped = message]

Message(sessionId, role, content, strategy) ==
    [sessionId |-> sessionId, role |-> role, content |-> content, strategy |-> strategy]

\* queryRAG(sessionId, userInput): the checks before the first await.
QueryRAG(p, sessionId, input) ==
    /\ rq[p].pc = "idle"
    /\ calls < MaxQueries
    /\ LET q == SanitizeUserQuery(input)
           r == [ReqIdle EXCEPT !.caller = "query", !.sessionId = sessionId,
                                !.query = q.sanitized]
       IN  SetReq(p, IF ~q.safe THEN Answered(r, BlockedResult)
                     ELSE IF Blank(q.sanitized) THEN Answered(r, EmptyResult)
                     ELSE [r EXCEPT !.pc = "q_findSession"])
    /\ calls' = calls + 1
    /\ UNCHANGED <<chunkVars, callVars, sessions, messages, files, uploads, caches, appended>>

\* let session = await ChatSession.findById(sessionId)   (outside the try)
QueryFindSession(p, ok) ==
    /\ rq[p].pc = "q_findSession"
    /\ SetReq(p, IF ~ok \/ ~ValidObjectId(rq[p].sessionId)
                 THEN Escaped(rq[p], "findById failed")
                 ELSE IF rq[p].sessionId \in sessions
                 THEN [rq[p] EXCEPT !.pc = "q_saveUser"]
                 ELSE [rq[p] EXCEPT !.pc = "q_createSession"])
    /\ UNCHANGED <<chunkVars, callVars, sessions, messages, files, uploads, caches, appended,
                   calls>>

\* session = await ChatSession.create({_id: sessionId, ...})   (outside the try)
QueryCreateSession(p, ok) ==
    /\ rq[p].pc = "q_createSession"
    /\ IF ok /\ rq[p].sessionId \notin sessions
       THEN /\ sessions' = sessions \cup {rq[p].sessionId}
            /\ SetReq(p, [rq[p] EXCEPT !.pc = "q_saveUser"])
       ELSE /\ UNCHANGED sessions
            /\ SetReq(p, Escaped(rq[p], "ChatSession.create failed"))
    /\ UNCHANGED <<chunkVars, callVars, messages, files, uploads, caches, appended, calls>>

\* await ChatMessage.create({role: "user", ...})   (outside the try)
QuerySaveUser(p, ok) ==
    /\ rq[p].pc = "q_saveUser"
    /\ IF ok
       THEN /\ messages' = Append(messages,
                    Message(rq[p].sessionId, "user", rq[p].query, JUndef))
            /\ SetReq(p, [rq[p] EXCEPT !.pc = "q_findFiles"])
       ELSE /\ UNCHANGED messages
            /\ SetReq(p, Escaped(rq[p], "ChatMessage.create failed"))
    /\ UNCHANGED <<chunkVars, callVars, sessions, files, uploads, caches, appended, calls>>

\* const files = await FileMetadata.find({sessionId})   (first await in the try)
QueryFindFiles(p, ok) ==
    /\ rq[p].pc = "q_findFiles"
    /\ SetReq(p, IF ok THEN [rq[p] EXCEPT !.pc = "r_classify"]
                 ELSE [rq[p] EXCEPT !.pc = "q_fallback", !.error = "find failed"])
    /\ UNCHANGED <<chunkVars, callVars, sessions, messages, files, uploads, caches, appended,
                   calls>>

\* sourceNodes.map(node => ({...node, type: node.nodeType}))
WithType(result) ==
    [result EXCEPT !.sourceNodes =
        [i \in DOMAIN result.sourceNodes |->
            [id |-> result.sourceNodes[i].id, content |-> result.sourceNodes[i].content,
             nodeType |-> result.sourceNodes[i].nodeType,
             type |-> result.sourceNodes[i].nodeType]]]

\* await ChatMessage.create({role: "assistant", ...}) after routeAndExecute
QuerySaveAssistant(p, ok) ==
    /\ rq[p].pc = "q_saveAssistant"
    /\ IF ok
       THEN /\ messages' = Append(messages,
                    Message(rq[p].sessionId, "assistant", rq[p].result.answer,
                            rq[p].result.strategyUsed))
            /\ SetReq(p, [rq[p] EXCEPT !.pc = "q_count"])
       ELSE /\ UNCHANGED messages
            /\ SetReq(p, [rq[p] EXCEPT !.pc = "q_fallback",
                                       !.error = "ChatMessage.create failed"])
    /\ UNCHANGED <<chunkVars, callVars, sessions, files, uploads, caches, appended, calls>>

MessageCount(sessionId) ==
    Cardinality({i \in DOMAIN messages : messages[i].sessionId = sessionId})

\* const messageCount = await ChatMessage.countDocuments({sessionId})
QueryCount(p, ok) ==
    /\ rq[p].pc = "q_count"
    /\ SetReq(p, IF ~ok THEN [rq[p] EXCEPT !.pc = "q_fallback", !.error = "count failed"]
                 ELSE IF MessageCount(rq[p].sessionId) <= 2
                 THEN [rq[p] EXCEPT !.pc = "q_title"]
                 ELSE Answered(rq[p], WithType(rq[p].result)))
    /\ UNCHANGED <<chunkVars, callVars, sessions, messages, files, uploads, caches, appended,
                   calls>>

\* await ChatSession.findByIdAndUpdate(sessionId, {title})
QueryUpdateTitle(p, ok) ==
    /\ rq[p].pc = "q_title"
    /\ SetReq(p, IF ok THEN Answered(rq[p], WithType(rq[p].result))
                 ELSE [rq[p] EXCEPT !.pc = "q_fallback", !.error = "update failed"])
    /\ UNCHANGED <<chunkVars, callVars, sessions, messages, files, uploads, caches, appended,
                   calls>>

\* catch: const answer = await GeminiService.generateFast(...)
QueryFallback(p, ok, answer) ==
    /\ rq[p].pc = "q_fallback"
    /\ LET r == [rq[p] EXCEPT !.llm = Append(@, "direct")]
       IN  SetReq(p, IF ok THEN [r EXCEPT !.pc = "q_saveFallback", !.answer = answer]
                     ELSE [r EXCEPT !.pc = "q_saveError"])
    /\ UNCHANGED <<chunkVars, callVars, sessions, messages, files, uploads, caches, appended,
                   calls>>

\* An inner try that returns the direct answer whether or not its message
\* was stored.
QuerySaveFallbackDirect(p, ok) ==
    /\ rq[p].pc = "q_saveFallback"
    /\ IF ok
       THEN messages' = Append(messages,
                Message(rq[p].sessionId, "assistant", rq[p].answer, JStr("Direct")))
       ELSE UNCHANGED messages
    /\ SetReq(p, Answered(rq[p], DirectAnswer(rq[p].answer)))
    /\ UNCHANGED <<chunkVars, callVars, sessions, files, uploads, caches, appended, calls>>

\* await ChatMessage.create({strategy: "Direct", ...}) in the inner try
QuerySaveFallback(p, ok) ==
    /\ rq[p].pc = "q_saveFallback"
    /\ IF ok
       THEN /\ messages' = Append(messages,
                    Message(rq[p].sessionId, "assistant", rq[p].answer, JStr("Direct")))
            /\ SetReq(p, Answered(rq[p], DirectAnswer(rq[p].answer)))
       ELSE /\ UNCHANGED messages
            /\ SetReq(p, [rq[p] EXCEPT !.pc = "q_saveError"])
    /\ UNCHANGED <<chunkVars, callVars, sessions, files, uploads, caches, appended, calls>>

\* inner catch: await ChatMessage.create({strategy: "Error", ...}), in no try
QuerySaveError(p, ok) ==
    /\ rq[p].pc = "q_saveError"
    /\ IF ok
       THEN /\ messages' = Append(messages,
                    Message(rq[p].sessionId, "assistant", ErrorMessage, JStr("Error")))
            /\ SetReq(p, Answered(rq[p], ErrorAnswer(rq[p].error)))
       ELSE /\ UNCHANGED messages
            /\ SetReq(p, Escaped(rq[p], "ChatMessage.create failed"))
    /\ UNCHANGED <<chunkVars, callVars, sessions, files, uploads, caches, appended, calls>>


(***************************************************************************)
(* Specifications.                                                         *)
(***************************************************************************)
(***************************************************************************)
(* VectorService.cosineSimilarity.  A score is an IEEE-754 double or NaN.  *)
(* A double x is kept as its sign and the numeral of |x| rounded to 17     *)
(* decimal places, in two parts: |x| = (hi * 10^9 + lo) * 10^-17.  For the  *)
(* doubles of this model these numerals are distinct and ordered as the    *)
(* doubles are.                                                            *)
(***************************************************************************)
Double(neg, hi, lo) == [nan |-> FALSE, neg |-> neg, hi |-> hi, lo |-> lo]

NaN == [nan |-> TRUE, neg |-> FALSE, hi |-> 0, lo |-> 0]

\* The literal 0 of `return 0`.
Zero == Double(FALSE, 0, 0)

RECURSIVE Sum(_)
Sum(list) == IF list = <<>> THEN 0 ELSE Head(list) + Sum(Tail(list))

\* The double d / (Math.sqrt(a) * Math.sqrt(b)) for sums 1 <= d <= a <= b <= 4:
\* the square roots, their product and the quotient are each rounded to the
\* nearest double.
Quotient(d, a, b) ==
    CASE <<d, a, b>> = <<1, 1, 1>> -> <<100000000, 0>>        \* 1.0
      [] <<d, a, b>> = <<1, 1, 2>> -> <<70710678, 118654746>> \* 0.7071067811865475
      [] <<d, a, b>> = <<1, 1, 3>> -> <<57735026, 918962584>> \* 0.5773502691896258
      [] <<d, a, b>> = <<1, 1, 4>> -> <<50000000, 0>>         \* 0.5
      [] <<d, a, b>> = <<1, 2, 2>> -> <<49999999, 999999989>> \* 0.4999999999999999
      [] <<d, a, b>> = <<2, 2, 2>> -> <<99999999, 999999978>> \* 0.9999999999999998
      [] <<d, a, b>> = <<1, 2, 3>> -> <<40824829, 46386296>>  \* 0.40824829046386296
      [] <<d, a, b>> = <<2, 2, 3>> -> <<81649658, 92772592>>  \* 0.8164965809277259
      [] <<d, a, b>> = <<1, 2, 4>> -> <<35355339, 59327373>>  \* 0.35355339059327373
      [] <<d, a, b>> = <<2, 2, 4>> -> <<70710678, 118654746>> \* 0.7071067811865475
      [] <<d, a, b>> = <<1, 3, 3>> -> <<33333333, 333333337>> \* 0.33333333333333337
      [] <<d, a, b>> = <<2, 3, 3>> -> <<66666666, 666666674>> \* 0.6666666666666667
      [] <<d, a, b>> = <<3, 3, 3>> -> <<100000000, 22>>       \* 1.0000000000000002
      [] <<d, a, b>> = <<1, 3, 4>> -> <<28867513, 459481292>> \* 0.2886751345948129
      [] <<d, a, b>> = <<2, 3, 4>> -> <<57735026, 918962584>> \* 0.5773502691896258
      [] <<d, a, b>> = <<3, 3, 4>> -> <<86602540, 378443871>> \* 0.8660254037844387
      [] <<d, a, b>> = <<1, 4, 4>> -> <<25000000, 0>>         \* 0.25
      [] <<d, a, b>> = <<2, 4, 4>> -> <<50000000, 0>>         \* 0.5
      [] <<d, a, b>> = <<3, 4, 4>> -> <<75000000, 0>>         \* 0.75
      [] <<d, a, b>> = <<4, 4, 4>> -> <<100000000, 0>>        \* 1.0

\* dotProduct / (Math.sqrt(normA) * Math.sqrt(normB)) on the sums of the
\* loop: 0 / 0 is NaN; a zero norm makes the dot product zero as well, so no
\* division yields an infinity; 0 / x is 0; the product of the roots does
\* not depend on their order.
Divide(dot, normA, normB) ==
    IF normA = 0 \/ normB = 0 THEN NaN
    ELSE IF dot = 0 THEN Zero
    ELSE LET q == Quotient(IF dot < 0 THEN -dot ELSE dot,
                           Min(normA, normB), Max(normA, normB))
         IN  Double(dot < 0, q[1], q[2])

\* The loop and the division without the length check: an index past the end
\* of b reads undefined, which makes every sum NaN.
CosineSimilarityUnchecked(a, b) ==
    IF Len(a) > Len(b)
    THEN NaN
    ELSE Divide(Sum([i \in DOMAIN a |-> a[i] * b[i]]),
                Sum([i \in DOMAIN a |-> a[i] * a[i]]),
                Sum([i \in DOMAIN a |-> b[i] * b[i]]))

CosineSimilarity(a, b) ==
    IF Len(a) # Len(b)
    THEN Zero
    ELSE Divide(Sum([i \in DOMAIN a |-> a[i] * b[i]]),
                Sum([i \in DOMAIN a |-> a[i] * a[i]]),
                Sum([i \in DOMAIN a |-> b[i] * b[i]]))

\* |x| > |y| for two doubles.
Larger(x, y) == x.hi > y.hi \/ (x.hi = y.hi /\ x.lo > y.lo)

\* x > y for two scores that are numbers.  A negative score is not zero.
Greater(x, y) ==
    IF x.neg # y.neg THEN y.neg
    ELSE IF x.neg THEN Larger(y, x)
    ELSE Larger(x, y)

\* The comparator (a, b) => b.score - a.score as the sort reads it: negative
\* when a goes first, positive when b goes first, 0 for equal scores and for
\* a NaN difference.
CompareScores(a, b) ==
    IF a.nan \/ b.nan THEN 0
    ELSE IF Greater(a, b) THEN -1
    ELSE IF Greater(b, a) THEN 1
    ELSE 0

Components == -1..1

Vectors == UNION {[1..n -> Components] : n \in 0..MaxDim}

CosineIdle == [pc |-> "idle", a |-> <<>>, b |-> <<>>, out |-> Zero]

CosineCall(a, b) ==
    /\ cs.pc = "idle"
    /\ cs' = [pc |-> "done", a |-> a, b |-> b, out |-> CosineSimilarity(a, b)]
    /\ UNCHANGED <<chunkVars, ragVars, ex, se, ds>>

(***************************************************************************)
(* VectorService.search.                                                   *)
(***************************************************************************)
DefaultTopK == 5

NoEmbedding == [t |-> "undefined", v |-> <<>>]

Embedding(v) == [t |-> "array", v |-> v]

\* c => c.embedding: an array is truthy, the empty one too.
HasEmbedding(c) == c.embedding.t = "array"

\* The comparator applied to two scored chunks.
Compare(x, y) == CompareScores(x.score, y.score)


\* The length of the run the array starts with: strictly descending when
\* the second element sorts before the first, else non-descending.
RunLength(list) ==
    IF Len(list) < 2 THEN Len(list)
    ELSE LET descending == Compare(list[2], list[1]) < 0
             Continues(idx) ==
                IF descending THEN Compare(list[idx], list[idx - 1]) < 0
                ELSE Compare(list[idx], list[idx - 1]) >= 0
         IN  CHOOSE r \in 2..Len(list) :
                /\ \A idx \in 3..r : Continues(idx)
                /\ r < Len(list) => ~Continues(r + 1)

RunIsDescending(list) == Len(list) >= 2 /\ Compare(list[2], list[1]) < 0

\* The place the binary search finds for pivot in list[left .. right - 1].
RECURSIVE InsertionPoint(_, _, _, _)
InsertionPoint(list, pivot, left, right) ==
    IF left >= right THEN left
    ELSE LET mid == left + ((right - left) \div 2)
         IN  IF Compare(pivot, list[mid]) < 0
             THEN InsertionPoint(list, pivot, left, mid)
             ELSE InsertionPoint(list, pivot, mid + 1, right)

\* Binary insertion of list[start], list[start + 1], ... into the sorted
\* prefix before them.
RECURSIVE BinaryInsertionSort(_, _)
BinaryInsertionSort(list, start) ==
    IF start > Len(list) THEN list
    ELSE LET pivot == list[start]
             left == InsertionPoint(list, pivot, 1, start)
             moved == SubSeq(list, 1, left - 1) \o <<pivot>>
                        \o SubSeq(list, left, start - 1)
                        \o SubSeq(list, start + 1, Len(list))
         IN  BinaryInsertionSort(moved, start + 1)

\* Array.prototype.sort on a short array as Node.js runs it: the leading run
\* is found and, when strictly descending, reversed; the other elements are
\* added by binary insertion.  For a consistent comparator this is the stable
\* sort the language requires; with NaN differences, which the sort reads as
\* 0, the language leaves the order to the implementation and the result is
\* what these steps leave.
Sort(list) ==
    LET run == RunLength(list)
        made == IF RunIsDescending(list)
                THEN Reverse(SubSeq(list, 1, run)) \o SubSeq(list, run + 1, Len(list))
                ELSE list
    IN  BinaryInsertionSort(made, run + 1)

\* chunks.filter(c => c.embedding).map(chunk => ({chunk, score}))
Scored(queryEmbedding, chunks) ==
    LET kept == SelectSeq(chunks, HasEmbedding)
    IN  [i \in DOMAIN kept |->
            [chunk |-> kept[i],
             score |-> CosineSimilarity(queryEmbedding, kept[i].embedding.v)]]

\* The topK argument: a number, or left out.
NoTopK == [t |-> "undefined", v |-> 0]

Number(n) == [t |-> "number", v |-> n]

\* topK: number = 5
TopK(arg) == IF arg.t = "undefined" THEN DefaultTopK ELSE arg.v

SearchIdle ==
    [pc |-> "idle", query |-> "", chunks |-> <<>>, topK |-> NoTopK,
     queryEmbedding |-> <<>>, scored |-> <<>>, result |-> <<>>]

Search(query, chunks, topK) ==
    /\ se.pc = "idle"
    /\ se' = [se EXCEPT !.pc = "embedding", !.query = query, !.chunks = chunks,
                         !.topK = topK]
    /\ UNCHANGED <<chunkVars, ragVars, ex, cs, ds>>

\* GeminiService.generateEmbedding: [] for an empty text, else the vector the
\* service returns.
EmbeddingsOf(text) == IF text = "" THEN {<<>>} ELSE {<<1, 0>>, <<1, 1>>}

SearchRank ==
    /\ se.pc = "embedding"
    /\ \E queryEmbedding \in EmbeddingsOf(se.query) :
          LET scored == Scored(queryEmbedding, se.chunks)
              top == JsSlice(Sort(scored), 0, TopK(se.topK))
          IN  se' = [se EXCEPT !.pc = "done", !.queryEmbedding = queryEmbedding,
                                 !.scored = top,
                                 !.result = [p \in DOMAIN top |-> top[p].chunk]]
    /\ UNCHANGED <<chunkVars, ragVars, ex, cs, ds>>

\* generateEmbedding rejects: search rejects with it.
SearchEmbedFails ==
    /\ se.pc = "embedding"
    /\ se.query # ""
    /\ se' = [se EXCEPT !.pc = "failed"]
    /\ UNCHANGED <<chunkVars, ragVars, ex, cs, ds>>

(***************************************************************************)
(* resolvers.Mutation.deleteSession: three deletions started together by   *)
(* Promise.all, each carried out by the store at its own time.             *)
(***************************************************************************)
DeleteIdle == [pc |-> "idle", sessionId |-> NoSession, pending |-> {}, rejected |-> FALSE]

DeleteOps == {"messages", "files", "session"}

\* new mongoose.Types.ObjectId(sessionId) throws on a malformed id; else the
\* three deletions are issued.
DeleteSession(sessionId) ==
    /\ ds.pc = "idle"
    /\ ds' = IF ValidObjectId(sessionId)
             THEN [pc |-> "deleting", sessionId |-> sessionId, pending |-> DeleteOps,
                   rejected |-> FALSE]
             ELSE [pc |-> "thrown", sessionId |-> sessionId, pending |-> {},
                   rejected |-> FALSE]
    /\ UNCHANGED <<chunkVars, ragVars, ex, cs, se>>

\* ChatMessage.deleteMany, FileMetadata.deleteMany or
\* ChatSession.findByIdAndDelete takes effect, or fails.
DeleteOp(op, ok) ==
    /\ op \in ds.pending
    /\ ds' = [ds EXCEPT !.pending = @ \ {op}, !.rejected = @ \/ ~ok]
    /\ messages' = IF ok /\ op = "messages"
                   THEN SelectSeq(messages, LAMBDA m : m.sessionId # ds.sessionId)
                   ELSE messages
    /\ files' = IF ok /\ op = "files"
                THEN SelectSeq(files, LAMBDA f : f.sessionId # ds.sessionId)
                ELSE files
    /\ sessions' = IF ok /\ op = "session" THEN sessions \ {ds.sessionId} ELSE sessions
    /\ UNCHANGED <<chunkVars, uploads, caches, rq, appended, calls, ex, cs, se>>

\* Promise.all resolved: return true.
DeleteReturn ==
    /\ ds.pc = "deleting"
    /\ ds.pending = {}
    /\ ~ds.rejected
    /\ ds' = [ds EXCEPT !.pc = "done"]
    /\ UNCHANGED <<chunkVars, ragVars, ex, cs, se>>

\* Promise.all rejected with the first failure; the other deletions go on.
DeleteThrow ==
    /\ ds.pc = "deleting"
    /\ ds.rejected
    /\ ds' = [ds EXCEPT !.pc = "thrown"]
    /\ UNCHANGED <<chunkVars, ragVars, ex, cs, se>>

ExtractIdle == [pc |-> "idle", columns |-> <<>>, sample |-> <<>>, out |-> NoTriples]

Init ==
    /\ fx = FixedIdle
    /\ em = EmbedIdle
    /\ ck = ChunkIdle
    /\ sessions = {}
    /\ messages = <<>>
    /\ files = <<>>
    /\ uploads = 0
    /\ caches = <<>>
    /\ rq = [p \in Procs |-> ReqIdle]
    /\ appended = [s \in Sessions |-> NoWrite]
    /\ calls = 0
    /\ ex = ExtractIdle
    /\ cs = CosineIdle
    /\ se = SearchIdle
    /\ ds = DeleteIdle

FileTypes == {"csv", "json", "txt"}

\* One call in a behaviour: chunkText with strategy "fixed", or
\* processDocument with the chunking and the embedding it goes through.
NextFixed ==
    \/ \E text \in SeqsUpTo(Alphabet, MaxTextLen), maxSize \in 1..MaxChunkSize,
          overlap \in 0..MaxOverlap :
            ck.pc = "idle" /\ ChunkTextFixed(text, maxSize, overlap)
    \/ \E content \in SeqsUpTo(Alphabet, MaxTextLen), fileType \in FileTypes :
          ProcessDocument(content, fileType)
    \/ FixedStep
    \/ FixedExhaust
    \/ ProcessDocumentEmbed
    \/ EmbedIssueBatch
    \/ \E k \in 0..(MaxEmbedChunks - 1), ok \in BOOLEAN : EmbedSettle(k, ok)
    \/ EmbedJoin

SpecFixed == Init /\ [][NextFixed]_vars

\* The loop is sequential code: an iteration that can run does run.
FairFixed == SpecFixed /\ WF_vars(FixedStep) /\ WF_vars(FixedExhaust)

\* C1: for 0 <= overlap < maxSize and a non-empty text, fixed chunking
\* terminates: every pass through the loop moves the window start forward,
\* and a call that entered the loop eventually returns its chunks.
C1_FixedTerminates ==
    /\ [][(fx.pc = "loop" /\ fx'.pc = "loop" /\ fx.overlap < fx.maxSize)
            => fx'.start > fx.start]_vars
    /\ ((fx.pc = "loop" /\ fx.overlap < fx.maxSize) ~> (fx.pc = "done"))

\* C21: a call of fixed chunking with overlap >= maxSize is rejected or its
\* overlap is clamped below maxSize: the loop never runs with an overlap that
\* is not below maxSize, and so every pass moves the window start forward.
C21_OverlapGuarded ==
    /\ [](fx.pc = "loop" => fx.overlap < fx.maxSize)
    /\ [][(fx.pc = "loop" /\ fx'.pc = "loop" /\ fx.overlap >= fx.maxSize)
            => fx'.start > fx.start]_vars

\* The windows the claim names: they start at the multiples of
\* maxSize - overlap and are at most maxSize long; a text no longer than the
\* overlap is one window, an empty text none.
WindowCount ==
    IF fx.text = <<>> THEN 0
    ELSE Max(CeilDiv(Len(fx.text) - fx.overlap, fx.maxSize - fx.overlap), 1)

Window(i) ==
    JsSlice(fx.text, i * (fx.maxSize - fx.overlap),
            i * (fx.maxSize - fx.overlap) + fx.maxSize)

\* The first chunk followed by every later chunk without its first
\* `overlap` characters.
Rejoin(chunks, overlap) ==
    IF chunks = <<>> THEN <<>>
    ELSE Head(chunks) \o
         Flatten([i \in 1..(Len(chunks) - 1) |->
                    JsSlice(chunks[i + 1], overlap, Len(chunks[i + 1]))])

\* C18: for overlap < maxSize the chunks fixed chunking returns are exactly
\* the ceil((len - overlap) / (maxSize - overlap)) windows that start at the
\* multiples of maxSize - overlap, and rejoining them gives back the text.
\* The list only grows, so on the way there the chunks pushed so far are the
\* first of these windows.
C18_FixedWindows ==
    (fx.pc # "idle" /\ fx.overlap < fx.maxSize) =>
        /\ Len(fx.chunks) <= WindowCount
        /\ \A i \in DOMAIN fx.chunks : fx.chunks[i] = Window(i - 1)
        /\ fx.pc = "done" =>
              /\ Len(fx.chunks) = WindowCount
              /\ Rejoin(fx.chunks, fx.overlap) = fx.text

(***************************************************************************)
(* Sentence and semantic chunking, called directly and through chunkText.  *)
(***************************************************************************)
ProseAlphabet == {"a", ".", " "}

ParagraphAlphabet == {"a", "A", "\n"}

RawAlphabet == {"a", ".", " ", "\n"}

NextChunk ==
    \/ \E text \in SeqsUpTo(ProseAlphabet, MaxProseLen), maxSize \in 1..MaxChunkSize :
          ChunkByCall("sentence", text, maxSize)
    \/ \E text \in SeqsUpTo(ParagraphAlphabet, MaxProseLen), maxSize \in 1..MaxChunkSize :
          ChunkByCall("semantic", text, maxSize)
    \/ \E raw \in SeqsUpTo(RawAlphabet, MaxRawLen), maxSize \in 1..MaxChunkSize,
          strategy \in {"sentence", "semantic"} : ChunkText(raw, maxSize, strategy)

SpecChunk == Init /\ [][NextChunk]_vars

\* The length of the longest of the units (sentences or paragraphs).
LongestUnit(units) ==
    IF units = <<>> THEN 0
    ELSE CHOOSE n \in {Len(units[i]) : i \in DOMAIN units} :
            \A i \in DOMAIN units : Len(units[i]) <= n

\* C22: every chunk that sentence or semantic chunking emits, except
\* possibly the last, is at most maxSize plus the length of one input
\* sentence (paragraph) long.
C22_ChunkLengthBounded ==
    ck.pc = "done" =>
        \A i \in 1..(Len(ck.chunks) - 1) :
            Len(ck.chunks[i]) <= ck.maxSize + LongestUnit(ck.units)

\* C30: chunkText with strategy "semantic" returns no chunk for a blank text
\* and otherwise exactly one chunk, the whitespace-normalised text, whatever
\* maxChunkSize is.
C30_SemanticOneChunk ==
    (ck.pc = "done" /\ ck.via = "chunkText" /\ ck.strategy = "semantic") =>
        ck.chunks = IF CleanText(ck.raw) = <<>> THEN <<>> ELSE <<CleanText(ck.raw)>>

\* Two paragraphs, each as long as maxChunkSize, came back as one chunk.
C30_Witness ==
    /\ ck.pc = "done" /\ ck.via = "chunkText" /\ ck.strategy = "semantic"
    /\ ck.raw = <<"a", "\n", "\n", "a">>
    /\ ck.maxSize = 1
    /\ ck.chunks = <<<<"a", " ", "a">>>>

NextEmbed ==
    \/ \E v \in 0..2, n \in 0..MaxEmbedChunks : GenerateChunkEmbeddings(SampleChunks(v, n), EmbedStrategy)
    \/ EmbedIssueBatch
    \/ \E k \in 0..(MaxEmbedChunks - 1), ok \in BOOLEAN : EmbedSettle(k, ok)
    \/ EmbedJoin

SpecEmbed == Init /\ [][NextEmbed]_vars

\* Every embedding call settles, and the event loop runs what is ready.
FairEmbed ==
    /\ SpecEmbed
    /\ WF_vars(EmbedIssueBatch)
    /\ WF_vars(EmbedJoin)
    /\ WF_vars(\E k \in 0..(MaxEmbedChunks - 1), ok \in BOOLEAN : EmbedSettle(k, ok))

\* The Chunk at position k (0-based) of the returned list is the one of input k.
ChunkInPlace(k) ==
    LET chunk == em.results[k + 1]
    IN  /\ chunk.content = em.chunks[k + 1]
        /\ chunk.metadata.chunkIndex = k
        /\ chunk.metadata.totalChunks = Len(em.chunks)
        /\ ("embedding" \in DOMAIN chunk) <=> (em.call[k] = "ok")
        /\ em.attempts[k] = 1

EmbedReturnsAll ==
    /\ em.pc # "thrown"
    /\ em.pc = "done" =>
          /\ Len(em.results) = Len(em.chunks)
          /\ \A k \in 0..(Len(em.chunks) - 1) : ChunkInPlace(k)

\* C10: generateChunkEmbeddings completes and returns exactly n Chunks in
\* input order, the i-th with content i, index i and totalCount n; a Chunk
\* carries a vector exactly when its own embedding call succeeded, no call is
\* made twice, and a failed call never aborts the batch.
C10_EmbedKeepsEveryChunk ==
    /\ []EmbedReturnsAll
    /\ ((em.pc = "batch") ~> (em.pc = "done"))

InFlight == {k \in DOMAIN em.call : em.call[k] = "pending"}

\* The first chunk index of the batch chunk k belongs to.
BatchStart(k) == (k \div BatchSize) * BatchSize

\* C11: at most 5 embedding calls are in flight at any moment, and a call of
\* a later batch is issued only after every call of the batches before it
\* has settled.
C11_BoundedFanOut ==
    /\ Cardinality(InFlight) <= BatchSize
    /\ \A k \in DOMAIN em.call :
          em.call[k] # "none" =>
              \A j \in 0..(BatchStart(k) - 1) : em.call[j] \in {"ok", "fail"}

\* The second batch is in flight after a first batch of five calls, one of
\* which failed, has settled.
C11_Witness ==
    /\ em.pc = "await"
    /\ em.i = BatchSize
    /\ InFlight # {}
    /\ \E j \in 0..(BatchSize - 1) : em.call[j] = "fail"

\* A call over two batches has returned, with failed calls in both batches
\* and successful calls after them.
C10_Witness ==
    /\ em.pc = "done"
    /\ Len(em.chunks) > BatchSize
    /\ \E j \in 0..(BatchSize - 1), k \in BatchSize..(Len(em.chunks) - 1) :
          /\ em.call[j] = "fail"
          /\ em.call[k] = "fail"
          /\ \E m \in (j + 1)..(BatchSize - 1) :
                em.call[m] = "ok" /\ "embedding" \in DOMAIN em.results[m + 1]

(***************************************************************************)
(* The strategy executors called directly, one call after the other, on    *)
(* the files and graph caches of the store.                                *)
(***************************************************************************)
Executors == {"Graph", "Vector", "Agentic"}

StrategyKeys == {"ab.csv", "bc.csv", "wide.csv"}

StrategyProcs == {1}

\* The contexts a direct caller passes: the Graph executor also without a
\* session and with an id that is no object id.
Contexts(impl) ==
    [sessionId : IF impl = "Graph" THEN Sessions \cup {NoSession} \cup InvalidIds
                 ELSE Sessions,
     plan : {JUndef}]

StrategySteps(p) ==
    \/ \E ok \in BOOLEAN : StrategyFind(p, ok)
    \/ \E ok \in BOOLEAN, answer \in LlmAnswers : StrategySynthesis(p, ok, answer)
    \/ \E ok \in BOOLEAN : GraphFindOne(p, ok)
    \/ \E ok \in BOOLEAN : GraphWrite(p, ok)
    \/ Finish(p)

\* The executors called one after the other and at the same time on a store
\* of records that only grows; SpecQuery, SpecDelete and SpecSessions remove
\* records too.
NextStrategy ==
    \/ \E key \in StrategyKeys : UploadFile("s1", key)
    \/ \E p \in StrategyProcs, impl \in Executors :
          \E ctx \in Contexts(impl) : calls < MaxCalls /\ Execute(p, impl, ctx)
    \/ \E p \in StrategyProcs : StrategySteps(p)

SpecStrategy == Init /\ [][NextStrategy]_vars

(***************************************************************************)
(* The relation extractor on the tables an upload can store: the columns   *)
(* in any order, the cells strings, empty for an empty or missing field.   *)
(***************************************************************************)
TableColumns == {"id", "category", "price"}

CellValues(c) ==
    CASE c = "id" -> {"", "P1", "P2"}
      [] c = "category" -> {"", "Books"}
      [] OTHER -> {"", "9.99"}

ColumnLists ==
    {cols \in UNION {[1..n -> TableColumns] : n \in 1..Cardinality(TableColumns)} :
        \A i, j \in DOMAIN cols : i # j => cols[i] # cols[j]}

RowsOf(cols) ==
    {row \in [{cols[i] : i \in DOMAIN cols} -> UNION {CellValues(c) : c \in TableColumns}] :
        \A c \in DOMAIN row : row[c] \in CellValues(c)}

Samples(cols) == UNION {[1..n -> RowsOf(cols)] : n \in 1..MaxRows}

Extract(columns, sample) ==
    /\ ex.pc = "idle"
    /\ ex' = [pc |-> "done", columns |-> columns, sample |-> sample,
              out |-> TableTriples("table.csv", columns, JsSlice(sample, 0, SampleLimit))]
    /\ UNCHANGED <<chunkVars, ragVars, cs, se, ds>>

NextExtract == \E columns \in ColumnLists : \E sample \in Samples(columns) : Extract(columns, sample)

SpecExtract == Init /\ [][NextExtract]_vars

\* The number of positions of a list that hold the value v.
Count(list, v) == Cardinality({k \in DOMAIN list : list[k] = v})

\* The (row, attribute column) pairs of the extraction whose row has the
\* subject cell filled (when needSubject) and whose own cell is filled.
FilledCells(needSubject) ==
    LET subjectCol == SubjectCol(ex.columns)
    IN  {<<i, c>> \in (DOMAIN ex.sample) \X ({ex.columns[j] : j \in DOMAIN ex.columns} \ {subjectCol}) :
            /\ needSubject => ex.sample[i][subjectCol] # ""
            /\ ex.sample[i][c] # ""}

SubjectRows(needSubject) ==
    {i \in DOMAIN ex.sample : needSubject => ex.sample[i][SubjectCol(ex.columns)] # ""}

\* The extraction emitted, as multisets, one subject entity per row of
\* SubjectRows and one entity and one relationship per pair of FilledCells,
\* and nothing else.
EmitsExactly(needSubject) ==
    LET subjectCol == SubjectCol(ex.columns)
        cells == FilledCells(needSubject)
        rows == SubjectRows(needSubject)
        RelOf(ic) == Relationship(ex.sample[ic[1]][subjectCol], ex.sample[ic[1]][ic[2]], ic[2])
        EntOf(ic) == Entity(ex.sample[ic[1]][ic[2]], ic[2])
        SubOf(i) == Entity(ex.sample[i][subjectCol], subjectCol)
        NumEnt(e) == Cardinality({ic \in cells : EntOf(ic) = e})
                        + Cardinality({i \in rows : SubOf(i) = e})
    IN  /\ Len(ex.out.relationships) = Cardinality(cells)
        /\ Len(ex.out.entities) = Cardinality(cells) + Cardinality(rows)
        /\ \A ic \in cells :
              Count(ex.out.relationships, RelOf(ic))
                  = Cardinality({jd \in cells : RelOf(jd) = RelOf(ic)})
        /\ \A ic \in cells : Count(ex.out.entities, EntOf(ic)) = NumEnt(EntOf(ic))
        /\ \A i \in rows : Count(ex.out.entities, SubOf(i)) = NumEnt(SubOf(i))

\* C14 as stated: for every table with columns and sample rows the extractor
\* emits, for each row, one entity for the subject value and, for every
\* attribute column whose cell is non-empty, one entity for the cell value
\* and exactly one relationship subject -[column]-> cell, and nothing else.
C14_EveryRowEmits == ex.pc = "done" => EmitsExactly(FALSE)

\* C14 as amended: the same for the rows whose subject cell is non-empty; a
\* row whose subject cell is empty emits nothing, whatever its other cells.
C14_RowTriples == ex.pc = "done" => EmitsExactly(TRUE)

\* The table of the spec's scenario followed by a row without a subject: the
\* entities are P1, Books and 9.99, the relationships P1 -category-> Books
\* and P1 -price-> 9.99, and the second row added nothing.
C14_Witness ==
    /\ ex.pc = "done"
    /\ ex.columns = <<"id", "category", "price">>
    /\ ex.sample = <<[id |-> "P1", category |-> "Books", price |-> "9.99"],
                     [id |-> "", category |-> "Books", price |-> ""]>>
    /\ ex.out.entities =
          <<Entity("P1", "id"), Entity("Books", "category"), Entity("9.99", "price")>>
    /\ ex.out.relationships =
          <<Relationship("P1", "Books", "category"), Relationship("P1", "9.99", "price")>>

(***************************************************************************)
(* cosineSimilarity on every pair of small integer vectors.                *)
(***************************************************************************)
NextCosine == \E a \in Vectors : \E b \in Vectors : CosineCall(a, b)

SpecCosine == Init /\ [][NextCosine]_vars

\* C16: cosineSimilarity of two vectors of different lengths returns exactly
\* 0 (and returns: the call completes for every pair).
C16_LengthMismatchZero ==
    /\ (cs.pc = "done" /\ Len(cs.a) # Len(cs.b)) => cs.out = Zero
    /\ cs.pc = "idle" => \A a \in Vectors : \A b \in Vectors : ENABLED CosineCall(a, b)

\* A call whose shorter first argument would, compared over its own length,
\* score 1 against the prefix of the second.
C16_Witness ==
    cs.pc = "done" /\ cs.a = <<1>> /\ cs.b = <<1, 0>> /\ cs.out = Zero

\* A score is a number between -1 and 1.
InUnitRange(x) == ~x.nan /\ ~Larger(x, Double(FALSE, 100000000, 0))

\* C17: for all a and b, zero vectors and empty vectors of equal length
\* included, cosineSimilarity(a, b) lies in [-1, 1].
C17_ScoreInRange == cs.pc = "done" => InUnitRange(cs.out)

(***************************************************************************)
(* search on lists of chunks with and without vectors.                     *)
(***************************************************************************)
ChunkEmbeddings ==
    {NoEmbedding, Embedding(<<>>), Embedding(<<0, 0>>), Embedding(<<1, 0>>),
     Embedding(<<0, 1>>), Embedding(<<1, 1>>), Embedding(<<-1, 0>>)}

ChunkLists ==
    UNION {{[i \in 1..n |-> [id |-> i, embedding |-> e[i]]] : e \in [1..n -> ChunkEmbeddings]} :
            n \in 0..MaxSearchChunks}

NextSearch ==
    \/ \E query \in {"", "q"} : \E chunks \in ChunkLists :
          \E topK \in {NoTopK} \cup {Number(k) : k \in 0..MaxTopK} :
            Search(query, chunks, topK)
    \/ SearchRank
    \/ SearchEmbedFails

SpecSearch == Init /\ [][NextSearch]_vars

\* C15: search returns only chunks that have a vector, at most topK of them
\* (5 when topK is not given), in an order where no chunk follows one of
\* lower cosine similarity, chunks of equal similarity in their original
\* order.
C15_SearchRanked ==
    se.pc = "done" =>
        /\ \A p \in DOMAIN se.result : HasEmbedding(se.result[p])
        /\ Len(se.result) <= TopK(se.topK)
        /\ \A p, q \in DOMAIN se.scored :
              p < q =>
                /\ ~se.scored[p].score.nan /\ ~se.scored[q].score.nan
                        => ~Greater(se.scored[q].score, se.scored[p].score)
                /\ se.scored[p].score = se.scored[q].score
                        => se.scored[p].chunk.id < se.scored[q].chunk.id

(***************************************************************************)
(* Two Graph executions for one session that run at the same time.         *)
(***************************************************************************)
RaceKeys == {"ab.csv", "bc.csv"}

RaceContext == [sessionId |-> "s1", plan |-> JUndef]

\* The records are uploaded and stay: what the two executions race on is the
\* cache document, which DELETE /files/:id does not touch.
NextRace ==
    \/ \E key \in RaceKeys : UploadFile("s1", key)
    \/ \E p \in Procs : calls < MaxRaceCalls /\ Execute(p, "Graph", RaceContext)
    \/ \E p \in Procs : StrategySteps(p)

SpecRace == Init /\ [][NextRace]_vars

\* The save of request p writes the list computed from its own snapshot.
SaveSetsWholeList(p) ==
    (rq[p].pc = "g_write" /\ rq'[p].stored = "saved") =>
        caches'[rq[p].existing.at].relationships =
            JsSlice(rq[p].existing.relationships \o GraphTriples(rq[p].fs).relationships,
                    -RelationshipCap,
                    Len(rq[p].existing.relationships)
                        + Len(GraphTriples(rq[p].fs).relationships))

\* C13: two Graph executions for one session that interleave their
\* read-then-write merge can lose an update: a save sets the whole
\* relationship list from the snapshot it read, so the last write wins.
C13_LastWriteWins == [][\A p \in Procs : SaveSetsWholeList(p)]_vars

\* Both executions read the same cache and both saved, and the list holds
\* the snapshot and the batch of the second writer only: the relationships
\* the first writer appended are gone.
C13_Witness ==
    LET r1 == rq[1]
        r2 == rq[2]
        batch1 == GraphTriples(r1.fs).relationships
        batch2 == GraphTriples(r2.fs).relationships
    IN  /\ r1.stored = "saved"
        /\ r2.stored = "saved"
        /\ r1.existing = r2.existing
        /\ batch1 # batch2
        /\ caches[r1.existing.at].relationships = r1.existing.relationships \o batch1
        /\ Len(caches[r1.existing.at].relationships)
              < Len(r1.existing.relationships) + Len(batch1) + Len(batch2)

Names(ents) == {ents[i].name : i \in DOMAIN ents}

LastN(s, n) == SubSeq(s, Len(s) - n + 1, Len(s))

\* C4: after any sequence of Graph invocations the relationship list of the
\* session's GraphCache has at most 500 entries and ends with the most
\* recently appended relationships, on creation as on merge.
C4_RelationshipTail ==
    \A s \in Sessions :
        appended[s].at # 0 =>
            LET rel == caches[appended[s].at].relationships
                batch == appended[s].relationships
                n == Min(Len(batch), RelationshipCap)
            IN  /\ Len(rel) <= RelationshipCap
                /\ Len(rel) >= n
                /\ LastN(rel, n) = LastN(batch, n)

UniqueNames(ents) ==
    \A i, j \in DOMAIN ents : ents[i].name = ents[j].name => i = j

\* A merge leaves in the cache the names it held and the names of the batch.
MergeIsUnion(p) ==
    (rq[p].pc = "g_write" /\ rq'[p].stored = "saved") =>
        Names(caches'[rq[p].existing.at].entities) =
            Names(rq[p].existing.entities)
                \cup Names(UniqueEntities(GraphTriples(rq[p].fs).entities))

\* C5: within one GraphCache no two entities have the same name, and a merge
\* yields exactly the union of the names: {A,B} then {B,C} gives {A,B,C}.
C5_EntityNamesUnique ==
    /\ [](\A i \in DOMAIN caches : UniqueNames(caches[i].entities))
    /\ [][\A p \in Procs : MergeIsUnion(p)]_vars

\* A cache created with the entities {A,B} has been merged with a batch that
\* holds B and C, and now holds A, B and C, each once.
C5_Witness ==
    \E p \in Procs, i \in DOMAIN caches :
        /\ rq[p].stored = "saved"
        /\ rq[p].existing.at = i
        /\ Names(rq[p].existing.entities) = {"A", "B"}
        /\ {"B", "C"} \subseteq Names(GraphTriples(rq[p].fs).entities)
        /\ Names(caches[i].entities) = {"A", "B", "C"}
        /\ Len(caches[i].entities) = 3

\* The synthesis call of request r has returned its answer.
SynthesisReturned(r) == r.llm = <<"synthesis">> /\ r.error # "generateFast failed"

\* C12: a failure of the graph-cache step, which comes after the synthesis
\* call, neither changes nor prevents the Graph executor's result: the same
\* answer, citations and trace are returned and no error reaches the caller.
C12_StoreFailureSwallowed ==
    \A p \in Procs :
        (rq[p].caller = "direct" /\ rq[p].impl = "Graph" /\ rq[p].pc = "done"
            /\ SynthesisReturned(rq[p])) =>
            /\ rq[p].outcome = "returned"
            /\ rq[p].result.answer \in LlmAnswers
            /\ rq[p].result = DirectResult(GraphResult(rq[p].result.answer, rq[p].fs))
            /\ rq[p].stored # "none" => rq[p].result.answer = rq[p].answer

\* The save into an existing cache failed and the executor returned its
\* answer with the citations of the files.
C12_Witness ==
    \E p \in Procs :
        /\ rq[p].impl = "Graph"
        /\ rq[p].pc = "done"
        /\ rq[p].stored = "failed"
        /\ rq[p].existing.at # 0
        /\ rq[p].outcome = "returned"
        /\ rq[p].result.sourceNodes # <<>>

\* The executor of request r found no file for its session.
FoundNothing(r) ==
    /\ r.caller = "direct"
    /\ r.pc \notin {"idle", "s_find"}
    /\ r.outcome # "thrown"
    /\ r.fs = <<>>

NoDataOf(impl) == IF impl = "Graph" THEN GraphNoData ELSE VectorNoData

\* C8: on a session with no documents the Similarity-Retrieval and the
\* Relational-Graph executor return their fixed no-data answer with no
\* citations, without a call of the language model and without a write of
\* the GraphCache.
C8_NoDataVectorGraph ==
    \A p \in Procs :
        (FoundNothing(rq[p]) /\ rq[p].impl \in {"Vector", "Graph"}) =>
            /\ rq[p].pc = "done"
            /\ rq[p].outcome = "returned"
            /\ rq[p].result = DirectResult(NoDataOf(rq[p].impl))
            /\ rq[p].result.sourceNodes = <<>>
            /\ rq[p].llm = <<>>
            /\ rq[p].stored = "none"

\* The Graph executor has answered "no data" for a session without files
\* while another session holds files and a graph cache.
C8_Witness ==
    \E p \in Procs :
        /\ rq[p].impl = "Graph"
        /\ rq[p].pc = "done"
        /\ rq[p].ctx.sessionId = "s2"
        /\ rq[p].result.answer = GraphNoData.answer
        /\ files # <<>>
        /\ caches # <<>>

\* C9: every executor, the Agentic one included, answers a session with no
\* documents with a fixed no-data text, decided without a call of the
\* language model.
C9_NoDataEveryStrategy ==
    \A p \in Procs :
        FoundNothing(rq[p]) =>
            /\ rq[p].pc = "done"
            /\ rq[p].llm = <<>>
            /\ rq[p].result.answer \in {GraphNoData.answer, VectorNoData.answer}

(***************************************************************************)
(* queryRAG requests, one at a time, through the router.                   *)
(***************************************************************************)
QueryKeys == {"products.csv"}

QuerySessions == {"s1"} \cup InvalidIds

QueryProcs == {1}

QuerySteps(p) ==
    \/ \E ok \in BOOLEAN : QueryFindSession(p, ok)
    \/ \E ok \in BOOLEAN : QueryCreateSession(p, ok)
    \/ \E ok \in BOOLEAN : QuerySaveUser(p, ok)
    \/ \E ok \in BOOLEAN : QueryFindFiles(p, ok)
    \/ \E reply \in ClassifierReplies : Classify(p, reply)
    \/ \E ok \in BOOLEAN : QuerySaveAssistant(p, ok)
    \/ \E ok \in BOOLEAN : QueryCount(p, ok)
    \/ \E ok \in BOOLEAN : QueryUpdateTitle(p, ok)
    \/ \E ok \in BOOLEAN, answer \in LlmAnswers : QueryFallback(p, ok, answer)
    \/ \E ok \in BOOLEAN : QuerySaveFallback(p, ok)
    \/ \E ok \in BOOLEAN : QuerySaveError(p, ok)

NextQuery ==
    \/ \E key \in QueryKeys : uploads < MaxUploads /\ UploadFile("s1", key)
    \/ \E id \in FileIds : DeleteFile(id)
    \/ \E id \in GeneratedIds : CreateSession(id)
    \/ \E p \in QueryProcs, s \in QuerySessions, input \in UserInputs :
          QueryRAG(p, s, input)
    \/ \E p \in QueryProcs : QuerySteps(p)
    \/ \E p \in QueryProcs : StrategySteps(p)

SpecQuery == Init /\ [][NextQuery]_vars

\* A result with every field of a RAGResult.
Complete(result) ==
    /\ result.answer # ""
    /\ result.strategyUsed.t = "string"
    /\ result.reasoningTrace # ""
    /\ result.executionPlan.t = "list"

\* C2: whatever calls fail, queryRAG returns a complete result; no exception
\* leaves queryRAG.
C2_QueryAlwaysAnswers ==
    \A p \in Procs :
        (rq[p].caller = "query" /\ rq[p].pc = "done") =>
            /\ rq[p].outcome = "returned"
            /\ Complete(rq[p].result)

\* The names that stand for the Similarity-Retrieval executor.
SimilarityNames == {n \in TableNames : StrategyFor(JStr(n)) = "Vector"} \cup {"VectorRAG"}

Unrecognized(name) == name.t # "string" \/ name.v \notin TableNames

\* The router has returned its result to queryRAG.
RouterReturned(r) ==
    r.caller = "query" /\ r.pc \in {"q_saveAssistant", "q_count", "q_title"}

\* C3: for a decision whose strategy name is missing or unknown the router
\* runs the Similarity-Retrieval executor, and strategyUsed of the result
\* says so.
C3_FallbackObservable ==
    \A p \in Procs :
        (RouterReturned(rq[p]) /\ Unrecognized(rq[p].decision.strategy)) =>
            /\ rq[p].impl = "Vector"
            /\ rq[p].result.strategyUsed.t = "string"
            /\ rq[p].result.strategyUsed.v \in SimilarityNames

\* The reply parses to the fixed shape {strategy, reasoning, plan}.
WellShaped(reply) ==
    /\ reply.kind = "json"
    /\ reply.value.t = "object"
    /\ reply.value.v.strategy.t = "string"
    /\ reply.value.v.reasoning.t = "string"
    /\ reply.value.v.plan.t = "list"

\* C6: after a classifier reply that is not the fixed-shape decision object
\* no executor runs: the router fails and queryRAG takes the direct-answer
\* path.
C6_MalformedDecisionFails ==
    \A p \in Procs :
        (rq[p].reply.kind # "none" /\ ~WellShaped(rq[p].reply)) =>
            /\ rq[p].pc \in {"q_fallback", "q_saveFallback", "q_saveError", "done"}
            /\ "synthesis" \notin {rq[p].llm[i] : i \in DOMAIN rq[p].llm}
            /\ rq[p].impl = "none"

\* The plan the claim promises for a decision: the Router's when the
\* decision carries one, the default steps otherwise.
PromisedPlan(decision) == IF decision.plan.t = "list" THEN decision.plan ELSE DefaultPlan

Populated(plan) == plan.t = "list" /\ plan.v # <<>>

\* C19: for an Agentic decision the plan of the result is the Router's plan
\* when the decision carries one and the default steps otherwise, never
\* missing or empty, in the value execute returns to a direct caller and in
\* the result of routeAndExecute.
C19_AgenticPlanPopulated ==
    \A p \in Procs :
        /\ (RouterReturned(rq[p]) /\ rq[p].decision.strategy = JStr("Agentic")) =>
              /\ Populated(rq[p].result.executionPlan)
              /\ rq[p].result.executionPlan = PromisedPlan(rq[p].decision)
        /\ (rq[p].caller = "direct" /\ rq[p].impl = "Agentic" /\ rq[p].pc = "done"
                /\ rq[p].outcome = "returned") =>
              Populated(rq[p].result.executionPlan)

(***************************************************************************)
(* deleteSession beside the other requests: uploads, file deletions,       *)
(* session creations and queryRAG calls begin before, during and after     *)
(* the deletion.                                                           *)
(***************************************************************************)
NextDelete ==
    \/ \E key \in QueryKeys : uploads < MaxUploads /\ UploadFile("s1", key)
    \/ \E id \in FileIds : DeleteFile(id)
    \/ \E id \in GeneratedIds : CreateSession(id)
    \/ \E p \in QueryProcs, input \in UserInputs : QueryRAG(p, "s1", input)
    \/ \E p \in QueryProcs : QuerySteps(p)
    \/ \E p \in QueryProcs : StrategySteps(p)
    \/ \E s \in QuerySessions : DeleteSession(s)
    \/ \E op \in DeleteOps, ok \in BOOLEAN : DeleteOp(op, ok)
    \/ DeleteReturn
    \/ DeleteThrow

SpecDelete == Init /\ [][NextDelete]_vars

\* Nothing stored carries the session id.
NoDataOfSession(s) ==
    /\ s \notin sessions
    /\ \A i \in DOMAIN messages : messages[i].sessionId # s
    /\ \A i \in DOMAIN files : files[i].sessionId # s
    /\ \A i \in DOMAIN caches : caches[i].sessionId # s

\* C20: once deleteSession(s) has returned, no message, file, GraphCache or
\* session record of s is stored, also when a queryRAG for s was in flight
\* during the deletion.
C20_DeleteLeavesNothing == ds.pc = "done" => NoDataOfSession(ds.sessionId)

\* Where a request stands with respect to routeAndExecute: 0 when it has not
\* been called (Idle), 1 awaiting the classifier (Classifying), 2 inside the
\* strategy's execute (Executing), 3 after the call returned or threw (Done).
\* A request that was blocked, or that failed before the router was called,
\* ends without a classification call and stays at 0.
RouterPhase(r) ==
    CASE r.pc = "r_classify" -> 1
      [] r.pc \in {"s_find", "s_synth", "g_findOne", "g_write"} -> 2
      [] /\ r.pc \in {"q_saveAssistant", "q_count", "q_title", "q_fallback",
                      "q_saveFallback", "q_saveError", "done"}
         /\ Count(r.llm, "classify") >= 1 -> 3
      [] OTHER -> 0

\* The classifier returned a value that routeAndExecute could read.
ClassifiedOk(r) == r.reply.kind = "json" /\ r.reply.value.t # "null"

\* C23: a routeAndExecute call goes Idle -> Classifying -> Executing -> Done
\* and never back: one classification call, at most one strategy execution,
\* started only after the classification returned, and no retry of either.
C23_RouterNoRetry ==
    /\ [](\A p \in Procs :
            rq[p].caller = "query" =>
                /\ Count(rq[p].llm, "classify") <= 1
                /\ Count(rq[p].llm, "synthesis") <= 1
                /\ (RouterPhase(rq[p]) = 2 \/ Count(rq[p].llm, "synthesis") = 1) =>
                      /\ Count(rq[p].llm, "classify") = 1
                      /\ rq[p].llm[1] = "classify"
                      /\ ClassifiedOk(rq[p])
                      /\ rq[p].impl # "none")
    /\ [][\A p \in Procs :
            (rq[p].caller = "query" /\ rq'[p].pc # "idle") =>
                /\ RouterPhase(rq'[p]) >= RouterPhase(rq[p])
                /\ RouterPhase(rq'[p]) = 2 => RouterPhase(rq[p]) \in {1, 2}
                /\ RouterPhase(rq'[p]) = 3 => RouterPhase(rq[p]) \in {1, 2, 3}]_vars

\* A call that classified once, executed the Graph strategy once and
\* returned.
C23_Witness ==
    \E p \in Procs :
        /\ rq[p].caller = "query"
        /\ rq[p].pc = "q_count"
        /\ rq[p].impl = "Graph"
        /\ rq[p].llm = <<"classify", "synthesis">>

SynthesisFailed(r) == r.caller = "query" /\ r.error = "generateFast failed"

RoutedNames(r) == {JStr(n) : n \in TableNames} \cup {r.decision.strategy}

\* The message the step of request p stored, if it stored one.
StoredBy(p, strategy) ==
    /\ Len(messages') = Len(messages) + 1
    /\ messages'[Len(messages')].sessionId = rq[p].sessionId
    /\ messages'[Len(messages')].role = "assistant"
    /\ messages'[Len(messages')].strategy = JStr(strategy)

\* After a failed synthesis call the request is on the direct-answer path
\* of queryRAG; what it returns is the direct answer or the apology, tagged
\* 'Direct' or 'Error' and never with a routed name; and when an exception
\* left queryRAG instead, it is the rejected store of the apology and no
\* result was returned.
FallbackTagged ==
    \A p \in Procs :
        SynthesisFailed(rq[p]) =>
            /\ rq[p].pc \in {"q_fallback", "q_saveFallback", "q_saveError", "done"}
            /\ (rq[p].pc = "done" /\ rq[p].outcome = "returned") =>
                  /\ rq[p].result \in {DirectAnswer(rq[p].answer),
                                       ErrorAnswer("generateFast failed")}
                  /\ rq[p].result.strategyUsed \in {JStr("Direct"), JStr("Error")}
                  /\ rq[p].result.strategyUsed \notin RoutedNames(rq[p])
            /\ (rq[p].pc = "done" /\ rq[p].outcome # "returned") =>
                  /\ rq[p].outcome = "thrown"
                  /\ rq[p].escaped = "ChatMessage.create failed"
                  /\ rq[p].result = NoResult

\* The direct answer, once generated and stored, is what queryRAG returns.
DirectWhenStored(p) ==
    (SynthesisFailed(rq[p]) /\ rq[p].pc = "q_saveFallback"
        /\ Len(messages') > Len(messages)) =>
            /\ StoredBy(p, "Direct")
            /\ rq'[p].pc = "done"
            /\ rq'[p].outcome = "returned"
            /\ rq'[p].result.strategyUsed = JStr("Direct")
            /\ rq'[p].result.answer \in LlmAnswers

\* A direct-answer call that failed, or a direct answer whose message was
\* not stored, sends the request to the inner catch: no result is returned
\* at that step.
FailureToInnerCatch(p) ==
    /\ (SynthesisFailed(rq[p]) /\ rq[p].pc = "q_fallback" /\ rq'[p] # rq[p]
            /\ rq'[p].pc # "q_saveFallback") =>
          /\ rq'[p].pc = "q_saveError"
          /\ messages' = messages
    /\ (SynthesisFailed(rq[p]) /\ rq[p].pc = "q_saveFallback" /\ rq'[p] # rq[p]
            /\ messages' = messages) =>
          rq'[p].pc = "q_saveError"

\* The inner catch stores the apology and returns it tagged 'Error'; when
\* that store is rejected, the rejection leaves queryRAG and nothing is
\* returned.
ErrorOrEscape(p) ==
    (SynthesisFailed(rq[p]) /\ rq[p].pc = "q_saveError" /\ rq'[p] # rq[p]) =>
        /\ rq'[p].pc = "done"
        /\ IF Len(messages') > Len(messages)
           THEN /\ StoredBy(p, "Error")
                /\ messages'[Len(messages')].content = ErrorMessage
                /\ rq'[p].outcome = "returned"
                /\ rq'[p].result = ErrorAnswer("generateFast failed")
           ELSE /\ rq'[p].outcome = "thrown"
                /\ rq'[p].escaped = "ChatMessage.create failed"
                /\ rq'[p].result = NoResult

\* A result is returned on this path only by the two stores: 'Direct' by
\* the store of the direct answer, 'Error' by the store of the apology.
ReturnedOnlyWhenStored(p) ==
    (SynthesisFailed(rq[p]) /\ rq[p].pc # "done" /\ rq'[p].pc = "done"
        /\ rq'[p].outcome = "returned") =>
            \/ /\ rq[p].pc = "q_saveFallback"
               /\ StoredBy(p, "Direct")
               /\ rq'[p].result = DirectAnswer(rq[p].answer)
            \/ /\ rq[p].pc = "q_saveError"
               /\ StoredBy(p, "Error")
               /\ rq'[p].result = ErrorAnswer("generateFast failed")

\* C7 (amended): after a failed synthesis call the error reaches queryRAG,
\* which takes the direct-answer path.  When the direct-answer call and the
\* storing of its message succeed it returns the direct answer tagged
\* 'Direct'.  When either fails it stores the apology: when that store
\* succeeds it returns the apology tagged 'Error', and when that store fails
\* too the rejection leaves queryRAG and no result is returned.  A routed
\* strategy name is never reported.
C7_FallbackTag ==
    /\ []FallbackTagged
    /\ [][\A p \in Procs :
            /\ DirectWhenStored(p)
            /\ FailureToInnerCatch(p)
            /\ ErrorOrEscape(p)
            /\ ReturnedOnlyWhenStored(p)]_vars

\* Synthesis failed for a routed strategy and queryRAG returned the direct
\* answer tagged 'Direct'.
C7_Witness ==
    \E p \in Procs :
        /\ SynthesisFailed(rq[p])
        /\ rq[p].decision.strategy = JStr("GraphRAG")
        /\ rq[p].pc = "done"
        /\ rq[p].outcome = "returned"
        /\ rq[p].result.strategyUsed = JStr("Direct")

\* Synthesis failed, the direct answer was generated and not stored, and
\* queryRAG returned the apology tagged 'Error'.
C7_ErrorSeen ==
    \E p \in Procs :
        /\ SynthesisFailed(rq[p])
        /\ rq[p].answer \in LlmAnswers
        /\ rq[p].pc = "done"
        /\ rq[p].outcome = "returned"
        /\ rq[p].result = ErrorAnswer("generateFast failed")

\* Synthesis failed, the direct-answer call failed, the store of the apology
\* was rejected and the rejection left queryRAG.
C7_EscapeSeen ==
    \E p \in Procs :
        /\ SynthesisFailed(rq[p])
        /\ rq[p].llm = <<"classify", "synthesis", "direct">>
        /\ rq[p].pc = "done"
        /\ rq[p].outcome = "thrown"
        /\ rq[p].escaped = "ChatMessage.create failed"

\* C7 as stated: after a failed synthesis call queryRAG returns the
\* direct-answer result tagged 'Direct'.
C7_AlwaysDirect ==
    \A p \in Procs :
        (SynthesisFailed(rq[p]) /\ rq[p].pc = "done") =>
            /\ rq[p].outcome = "returned"
            /\ rq[p].result.strategyUsed = JStr("Direct")

(***************************************************************************)
(* The graph cache across extractions.                                     *)
(***************************************************************************)
\* The entityType of the first entity of a list that bears the name.
FirstCategory(ents, name) ==
    ents[CHOOSE i \in DOMAIN ents :
            /\ ents[i].name = name
            /\ \A j \in 1..(i - 1) : ents[j].name # name].entityType

\* The names of a list of entities.
NamesOf(ents) == {ents[i].name : i \in DOMAIN ents}

\* The entities of the session's cache document, none when it has none.
CachedEntities(store, sessionId) ==
    LET hits == {i \in DOMAIN store : store[i].sessionId = sessionId}
    IN  IF hits = {} THEN <<>>
        ELSE store[CHOOSE i \in hits : \A j \in hits : i <= j].entities

\* The write of execution p keeps the category of every name the cache held
\* and gives a new name the category of its first occurrence among the
\* entities the execution emitted.
FirstWriterWins(p) ==
    LET s == rq[p].ctx.sessionId
        before == CachedEntities(caches, s)
        after == CachedEntities(caches', s)
        emitted == GraphTriples(rq[p].fs).entities
    IN  \A i \in DOMAIN after :
            LET name == after[i].name
            IN  after[i].entityType =
                    IF name \in NamesOf(before) THEN FirstCategory(before, name)
                    ELSE FirstCategory(emitted, name)

\* C24: the category cached for an entity name is that of the name's first
\* occurrence emitted for the session; neither a later merge nor a later
\* occurrence within the same extraction replaces it.
C24_FirstCategoryKept ==
    [][\A p \in Procs :
          (rq[p].pc = "g_write" /\ rq'[p].pc # "g_write" /\ caches' # caches)
              => FirstWriterWins(p)]_vars

(***************************************************************************)
(* The choice of the subject column, on tables of one row with every cell  *)
(* filled: headers with hinted and unhinted names in any order.            *)
(***************************************************************************)
SubjectHeaders == {"category", "price", "qty", "Order_ID", "name", "title"}

HeaderLists ==
    {cols \in UNION {[1..n -> SubjectHeaders] : n \in 1..MaxColumns} :
        \A i, j \in DOMAIN cols : i # j => cols[i] # cols[j]}

FilledRow(cols) == [c \in {cols[i] : i \in DOMAIN cols} |-> "v-" \o c]

NextSubject == \E columns \in HeaderLists : Extract(columns, <<FilledRow(columns)>>)

SpecSubject == Init /\ [][NextSubject]_vars

\* The headers whose name holds 'id', 'name' or 'title' in any case.
HintedHeaders == {"Order_ID", "name", "title"}

\* The column the rule names: the first hinted one, the first one otherwise.
RuleSubject(columns) ==
    LET hinted == {i \in DOMAIN columns : columns[i] \in HintedHeaders}
    IN  IF hinted = {} THEN columns[1]
        ELSE columns[CHOOSE i \in hinted : \A j \in hinted : i <= j]

\* The row of the extraction has every cell filled.
RowFilled ==
    /\ ex.pc = "done"
    /\ Len(ex.sample) = 1
    /\ \A i \in DOMAIN ex.columns : Truthy(Cell(ex.sample[1], ex.columns[i]))

\* C25: the subject column is the first column whose name contains 'id',
\* 'name' or 'title' in any case, the first column when there is none; every
\* other column is an attribute, the subject column never is.
C25_SubjectColumn ==
    RowFilled =>
        LET subject == RuleSubject(ex.columns)
            others == SelectSeq(ex.columns, LAMBDA c : c # subject)
            rels == ex.out.relationships
        IN  /\ ex.out.entities[1] = Entity(Cell(ex.sample[1], subject), subject)
            /\ [k \in DOMAIN rels |-> rels[k].relationType] = others
            /\ \A k \in DOMAIN rels :
                  /\ rels[k].relationType # subject
                  /\ rels[k].from = Cell(ex.sample[1], subject)

\* A header whose only hinted name is in upper case and comes last: Order_ID
\* is the subject, the two columns before it are attributes.
C25_Witness ==
    /\ RowFilled
    /\ ex.columns = <<"category", "price", "Order_ID">>
    /\ ex.out.entities[1].entityType = "Order_ID"
    /\ Len(ex.out.relationships) = 2

\* The number of GraphCache documents of a session.
CacheCount(sessionId) ==
    Cardinality({i \in DOMAIN caches : caches[i].sessionId = sessionId})

\* C26: whatever the interleaving of Graph executions, two concurrent first
\* executions for one session included, the store holds at most one
\* GraphCache document per session.
C26_OneCachePerSession == \A s \in Sessions : CacheCount(s) <= 1

\* Both endpoints of every relationship of the document are names of its
\* entities.
EndpointsCached(doc) ==
    \A k \in DOMAIN doc.relationships :
        /\ doc.relationships[k].from \in NamesOf(doc.entities)
        /\ doc.relationships[k].to \in NamesOf(doc.entities)

\* C27: both endpoints of every cached relationship are names of entities of
\* the same cache, also when an extraction yields more than 100 distinct
\* entities or more than 500 relationships.
C27_EndpointsAreEntities == \A i \in DOMAIN caches : EndpointsCached(caches[i])

(***************************************************************************)
(* The executors on a store that holds files of two sessions: a table and  *)
(* a text file without columns, uploaded to either session, and contexts   *)
(* with either session or none.                                            *)
(***************************************************************************)
SessionKeys == {"ab.csv", "notes.txt"}

SessionContexts == [sessionId : Sessions \cup {NoSession}, plan : {JUndef}]

NextSessions ==
    \/ \E s \in Sessions, key \in SessionKeys : UploadFile(s, key)
    \/ \E id \in FileIds : DeleteFile(id)
    \/ \E p \in StrategyProcs, impl \in Executors :
          \E ctx \in SessionContexts : calls < MaxCalls /\ Execute(p, impl, ctx)
    \/ \E p \in StrategyProcs : StrategySteps(p)

SpecSessions == Init /\ [][NextSessions]_vars

\* The synthesis call of the execution has answered.
SynthesisAnswered(r) ==
    /\ Count(r.llm, "synthesis") = 1
    /\ r.answer \in LlmAnswers
    /\ r.outcome # "thrown"

\* C28: a Graph execution leaves every GraphCache as it was when its
\* synthesis call fails, when its context has no session id, or when it
\* extracted no relationship: a step of an execution changes the caches only
\* as the write of a Graph execution whose synthesis answered, whose context
\* names a session and whose extraction yielded a relationship.
C28_NoStoreFrame ==
    [][\A p \in Procs :
          (rq'[p] # rq[p] /\ caches' # caches) =>
              /\ rq[p].impl = "Graph"
              /\ rq[p].pc = "g_write"
              /\ SynthesisAnswered(rq[p])
              /\ Truthy(rq[p].ctx.sessionId)
              /\ GraphTriples(rq[p].fs).relationships # <<>>]_vars

\* A Graph execution without a session id that extracted relationships has
\* returned while the store holds a cache, and wrote nothing.
C28_Witness ==
    \E p \in Procs :
        /\ rq[p].pc = "done"
        /\ rq[p].impl = "Graph"
        /\ rq[p].outcome = "returned"
        /\ rq[p].ctx.sessionId = NoSession
        /\ GraphTriples(rq[p].fs).relationships # <<>>
        /\ rq[p].stored = "none"
        /\ caches # <<>>

\* A Graph execution whose synthesis call failed has thrown while the store
\* holds a cache of its session.
C28_SynthesisFailedSeen ==
    \E p \in Procs :
        /\ rq[p].pc = "done"
        /\ rq[p].impl = "Graph"
        /\ rq[p].outcome = "thrown"
        /\ rq[p].error = "generateFast failed"
        /\ FindCache(rq[p].ctx.sessionId) # 0

\* A Graph execution with a session id that extracted no relationship has
\* returned while the store holds a cache.
C28_EmptyBatchSeen ==
    \E p \in Procs :
        /\ rq[p].pc = "done"
        /\ rq[p].impl = "Graph"
        /\ rq[p].outcome = "returned"
        /\ Truthy(rq[p].ctx.sessionId)
        /\ rq[p].fs # <<>>
        /\ GraphTriples(rq[p].fs).relationships = <<>>
        /\ caches # <<>>

\* Every file the execution read belongs to the session of its context.
ReadsOwnSession(r) ==
    \A i \in DOMAIN r.fs : r.fs[i].sessionId = r.ctx.sessionId

\* Every citation the execution returned names a file it read that belongs
\* to the session of its context.
CitesOwnSession(r) ==
    \A k \in DOMAIN r.result.sourceNodes :
        \E i \in DOMAIN r.fs :
            /\ FileId(r.fs[i]) = r.result.sourceNodes[k].id
            /\ r.fs[i].sessionId = r.ctx.sessionId

\* The cache the execution writes is the one of the session of its context,
\* and every entity the write adds comes from a file of that session.
WritesOwnSession(p) ==
    LET s == rq[p].ctx.sessionId
        own == SelectSeq(rq[p].fs, LAMBDA f : f.sessionId = s)
    IN  /\ \A t \in Sessions \ {s} : CachedEntities(caches', t) = CachedEntities(caches, t)
        /\ NamesOf(CachedEntities(caches', s)) \subseteq
              NamesOf(CachedEntities(caches, s)) \cup NamesOf(GraphTriples(own).entities)

\* C29: the documents an execution reads, the citations it returns and the
\* GraphCache it writes belong to the session of its context only, also when
\* the context has no session id.
C29_SessionIsolation ==
    /\ [](\A p \in Procs :
            rq[p].impl # "none" => ReadsOwnSession(rq[p]) /\ CitesOwnSession(rq[p]))
    /\ [][\A p \in Procs :
            (rq'[p] # rq[p] /\ caches' # caches) => WritesOwnSession(p)]_vars

====
